---- MODULE Spec2Model ----
(***************************************************************************)
(* Model of custom_components/hubspace/shared_framebuffer.py: the          *)
(* SharedFramebufferContext of one Hampton Bay string light, the tasks     *)
(* that call update_framebuffer on it concurrently on one asyncio event    *)
(* loop, the lock-free readers (get_current_framebuffer,                   *)
(* refresh_framebuffer_from_device), and the device behind the bridge.     *)
(*                                                                         *)
(* Python values: an Optional[...] is a sequence of length 0 (None) or 1   *)
(* (the value); a framebuffer list is a TLA+ sequence, so the 0-based      *)
(* bulb_index i addresses position i + 1; a bulb dict is a record.         *)
(* One step of the model is the code one task runs between two awaits.     *)
(***************************************************************************)
EXTENDS Integers, Sequences, FiniteSets, TLC

(* ------------------------------ bounds -------------------------------- *)

\* number of tasks that may be inside update_framebuffer at the same time
NumTasks == 2
\* total number of update_framebuffer calls issued in one behaviour
MaxCalls == 2
\* largest bulb_index passed to update_framebuffer
MaxIndex == 2
\* expected_bulb_count given to the context's constructor
ExpectedBulbCount == 2

\* number of SharedFramebufferContext objects created in one behaviour
MaxInstances == 2
\* number of HubspaceStringLightBulb objects constructed in one behaviour
MaxBulbs == 2
\* update_framebuffer calls issued on the contexts of the registry
MaxContextCalls == 2

\* turn-on and turn-off commands given to the bulb entities in one behaviour
MaxCommands == 2
\* commands given to the one bulb entity that is switched on, off and on again
MaxTripCommands == 3
\* turn-on and turn-off commands given to the two entities of a dual-channel light
MaxDualCommands == 3
\* classifications of one resource in one behaviour
MaxClassifications == 2
\* make_entities calls for one resource in one behaviour
MaxMakeEntities == 1
\* the entity constructions of one make_entities call of which one may raise
MaxRaiseAt == 2

Tasks == 1 .. NumTasks
Indices == 0 .. MaxIndex
\* resource.id of the string lights known to the bridge
ResourceIds == {"A", "B"}
\* the bulb entities of the device, named by their bulb_index:
\* make_entities constructs one per bulb, total_bulbs being the count given
\* to the context
Entities == 0 .. (ExpectedBulbCount - 1)

(* --------------------------- Python values ---------------------------- *)

None == << >>
Some(x) == << x >>

\* default_bulb of update_framebuffer: a bulb that is off
DefaultBulb ==
    [r |-> 255, g |-> 255, b |-> 255,
     colorBrightness |-> 0, whiteBrightness |-> 0, cct |-> 3500]

\* the per-bulb array the device holds when the integration starts
InitialDeviceFramebuffer ==
    << [r |-> 1, g |-> 2, b |-> 3,
        colorBrightness |-> 40, whiteBrightness |-> 0, cct |-> 3500],
       [r |-> 0, g |-> 0, b |-> 0,
        colorBrightness |-> 0, whiteBrightness |-> 60, cct |-> 2700] >>

\* a bug: the turn-off resets the color of the slot as well
PatchOffResetsColor ==
    [r |-> 255, g |-> 255, b |-> 255, colorBrightness |-> 0, whiteBrightness |-> 0]

\* bulb_data of async_turn_off
PatchOff == [colorBrightness |-> 0, whiteBrightness |-> 0]
\* bulb_data of async_turn_on without arguments
PatchOn == [colorBrightness |-> 100]
\* bulb_data of async_turn_on with an RGB color and a brightness
PatchRgb ==
    [r |-> 10, g |-> 20, b |-> 30, colorBrightness |-> 50, whiteBrightness |-> 0]

Patches == {PatchOff, PatchOn, PatchRgb}

\* the state a bulb entity starts with in self._current_bulb_state
InitialBulbState ==
    [r |-> 255, g |-> 255, b |-> 255,
     colorBrightness |-> 100, whiteBrightness |-> 0, cct |-> 3500]

\* no kwargs, and a trip not begun
NoKwargs == [brightness |-> None, rgb_color |-> None, color_temp_kelvin |-> None]
NoTrip == [stage |-> 0, kwargs |-> NoKwargs, slot |-> None]

\* no resource yet
NoLight == [id |-> "None"]

\* the two entities of a dual-channel light
DualEntities == {"color", "white"}

\* the state the dual-channel light holds when the integration starts: the
\* power is off, both channels keep their last brightness
InitialDualDevice ==
    [on |-> FALSE, color_mode |-> "white",
     colorBrightness |-> 40, whiteBrightness |-> 60,
     color |-> << 255, 255, 255 >>, temperature |-> 3000]

\* the keyword arguments of a set_state call that were not given (or None)
NoRequest ==
    [on |-> None, color |-> None, temperature |-> None, color_mode |-> None,
     colorBrightness |-> None, whiteBrightness |-> None]

\* dict.update: the keys of the patch overwrite, the other keys stay
DictUpdate(bulb, bulb_data) ==
    [f \in (DOMAIN bulb) \cup (DOMAIN bulb_data) |->
        IF f \in DOMAIN bulb_data THEN bulb_data[f] ELSE bulb[f]]

(* ------------------------------- state -------------------------------- *)

VARIABLES
    cached_framebuffer,  \* self._cached_framebuffer: None or Some(list)
    state_lock,          \* self._state_lock: 0 when free, else the holding task
    resource_framebuffer,\* framebuffer held in self.resource.instances, or None
    resource_on,         \* self.resource.on: "on", "off" or "None"
    device_framebuffer,  \* the per-bulb array the physical device holds
    device_mode,         \* the device's color mode
    device_on,           \* the device's power
    pc,                  \* per task: "idle", "waiting", "req1", "req2"
    bulb_index,          \* per task: argument of its update_framebuffer call
    bulb_data,           \* per task: argument of its update_framebuffer call
    new_framebuffer,     \* per task: the local new_framebuffer
    requests,            \* per task: device requests issued by its current call
    read_before,         \* per task: what get_current_framebuffer returned at line 167
    undisturbed,         \* per task: no refresh or resource update since line 167
    device_before,       \* per task: the array the device held at line 167
    calls,               \* number of update_framebuffer calls issued so far
    sequential,          \* the patches so far applied one after another, in
                         \* the order the lock was acquired; None before the first
    clean,               \* no device request raised and no refresh replaced the cache
    last_ok,             \* per bulb_index: bulb_data of the last successful call
    shared_contexts,     \* _shared_contexts: per resource id the context, 0 when absent
    contexts,            \* every SharedFramebufferContext created, in order of
                         \* creation: a context is identified by its position
    bulbs,               \* every HubspaceStringLightBulb constructed, in order
    returned,            \* per resource id: the contexts get_shared_context
                         \* returned since the last cleanup of that id
    cleaned,             \* per resource id: the context the last cleanup removed,
                         \* 0 when none or when the id was registered again
    context_calls,       \* update_framebuffer calls issued on registry contexts
    is_on,               \* per bulb entity: self._is_on
    current_bulb_state,  \* per bulb entity: self._current_bulb_state
    command,             \* per bulb entity: where its command handler stands:
                         \* "idle", "on_power", "on_update", "off_update"
    kwargs,              \* per bulb entity: the kwargs of its async_turn_on
    task,                \* per bulb entity: the task of its update_framebuffer
                         \* call, 0 when none
    trip,                \* per bulb entity: how far a turn-on with a color,
                         \* turn-off, same turn-on sequence has come
    dual_device,         \* the state the dual-channel light holds
    dual_command,        \* per dual entity: "idle", "turn_on" or "turn_off"
    dual_kwargs,         \* per dual entity: the kwargs of its command
    dual_request,        \* per dual entity: the arguments of its set_state
                         \* request in flight
    dual_commands,       \* commands given to the dual entities so far
    light,               \* the resource the controller has handed over, or NoLight
    classified,          \* what each run of the classifier found, in order
    entities,            \* every entity make_entities returned, in order
    made                 \* per make_entities call so far: whether a
                         \* construction raised in it

registry_vars ==
    << shared_contexts, contexts, bulbs, returned, cleaned, context_calls >>

entity_vars == << is_on, current_bulb_state, command, kwargs, task, trip >>

dual_vars ==
    << dual_device, dual_command, dual_kwargs, dual_request, dual_commands >>

factory_vars == << light, classified, entities, made >>

vars ==
    << cached_framebuffer, state_lock, resource_framebuffer, resource_on,
       device_framebuffer, device_mode, device_on, pc, bulb_index, bulb_data,
       new_framebuffer, requests, read_before, undisturbed, device_before,
       calls, sequential, clean, last_ok, registry_vars, entity_vars,
       dual_vars, factory_vars >>

context_vars == << cached_framebuffer, state_lock >>
device_vars == << device_framebuffer, device_mode, device_on >>
resource_vars == << resource_framebuffer, resource_on >>
task_vars ==
    << pc, bulb_index, bulb_data, new_framebuffer, requests,
       read_before, undisturbed, device_before >>
history_vars == << calls, sequential, clean, last_ok >>

(* ------------------------ SharedFramebufferContext --------------------- *)

\* _read_framebuffer_from_resource: a copy of the list found in the resource,
\* None when there is no instance or the list is empty
ReadFramebufferFromResource ==
    IF resource_framebuffer # None /\ Len(resource_framebuffer[1]) > 0
    THEN Some(resource_framebuffer[1])
    ELSE None

\* a bug: get_current_framebuffer parses the resource first and falls back
\* to the cache
GetCurrentFramebufferResourceFirst ==
    IF ReadFramebufferFromResource # None
    THEN ReadFramebufferFromResource
    ELSE cached_framebuffer

\* get_current_framebuffer: the cached list itself, else the parsed copy
GetCurrentFramebuffer ==
    IF cached_framebuffer # None
    THEN cached_framebuffer
    ELSE ReadFramebufferFromResource

\* get_power_state
GetPowerState == resource_on

\* a bug: the framebuffer is created from the state a bulb entity starts
\* with, whose colorBrightness is 100
CreateFramebufferLit(i) ==
    LET expected_bulb_count ==
            IF ExpectedBulbCount >= i + 1 THEN ExpectedBulbCount ELSE i + 1
    IN  [k \in 1 .. expected_bulb_count |-> InitialBulbState]

\* lines 171-188: the framebuffer created when none exists
CreateFramebuffer(i) ==
    LET expected_bulb_count ==
            IF ExpectedBulbCount >= i + 1 THEN ExpectedBulbCount ELSE i + 1
    IN  [k \in 1 .. expected_bulb_count |-> DefaultBulb]

\* lines 190-201: framebuffer.append(default_bulb) while len(framebuffer) <= i
ExtendFramebuffer(framebuffer, i) ==
    IF i >= Len(framebuffer)
    THEN framebuffer \o [k \in 1 .. (i + 1 - Len(framebuffer)) |-> DefaultBulb]
    ELSE framebuffer

\* a bug: the target bulb is rebuilt from the default bulb and the patch
PatchFramebufferWholeSlot(framebuffer, i, d) ==
    [framebuffer EXCEPT ![i + 1] = DictUpdate(DefaultBulb, d)]

\* lines 203-207: copy, then new_framebuffer[bulb_index].update(bulb_data)
PatchFramebuffer(framebuffer, i, d) ==
    [framebuffer EXCEPT ![i + 1] = DictUpdate(framebuffer[i + 1], d)]

\* a bug: update_framebuffer without the async with
CanAcquireUnlocked(t) == TRUE

\* async with self._state_lock: the lock can be taken when nobody holds it
CanAcquire(t) == state_lock = 0

\* whether the list named framebuffer at line 167 is the cached list object
\* (get_current_framebuffer returns self._cached_framebuffer, not a copy)
AliasesCache == cached_framebuffer # None

\* the state after construction of everything but the array the string light
\* holds, the resource's framebuffer and the dual-channel light's device
InitBesideDevice ==
    /\ cached_framebuffer = None
    /\ state_lock = 0
    /\ device_mode = "sequence"
    /\ device_on \in BOOLEAN
    /\ resource_on = IF device_on THEN "on" ELSE "off"
    /\ pc = [t \in Tasks |-> "idle"]
    /\ bulb_index = [t \in Tasks |-> 0]
    /\ bulb_data = [t \in Tasks |-> PatchOff]
    /\ new_framebuffer = [t \in Tasks |-> << >>]
    /\ requests = [t \in Tasks |-> 0]
    /\ read_before = [t \in Tasks |-> None]
    /\ undisturbed = [t \in Tasks |-> FALSE]
    /\ device_before = [t \in Tasks |-> << >>]
    /\ calls = 0
    /\ sequential = None
    /\ clean = TRUE
    /\ last_ok = [i \in Indices |-> None]
    /\ shared_contexts = [d \in ResourceIds |-> 0]
    /\ contexts = << >>
    /\ bulbs = << >>
    /\ returned = [d \in ResourceIds |-> {}]
    /\ cleaned = [d \in ResourceIds |-> 0]
    /\ context_calls = 0
    /\ is_on = [e \in Entities |-> FALSE]
    /\ current_bulb_state = [e \in Entities |-> InitialBulbState]
    /\ command = [e \in Entities |-> "idle"]
    /\ kwargs = [e \in Entities |-> NoKwargs]
    /\ task = [e \in Entities |-> 0]
    /\ trip = [e \in Entities |-> NoTrip]
    /\ dual_command = [x \in DualEntities |-> "idle"]
    /\ dual_kwargs = [x \in DualEntities |-> NoKwargs]
    /\ dual_request = [x \in DualEntities |-> NoRequest]
    /\ dual_commands = 0
    /\ light = NoLight
    /\ classified = << >>
    /\ entities = << >>
    /\ made = << >>

\* the state after construction of everything but the resource's framebuffer
\* and the dual-channel light's device: the string light holds an array with
\* a record for each declared bulb
InitBesideResource ==
    /\ InitBesideDevice
    /\ device_framebuffer = InitialDeviceFramebuffer

\* the state after construction of everything but the dual-channel light's
\* device: the resource holds no framebuffer yet, or the device's
InitBesideDual ==
    /\ InitBesideResource
    /\ resource_framebuffer \in {None, Some(InitialDeviceFramebuffer)}

Init ==
    /\ InitBesideDual
    /\ dual_device = InitialDualDevice

(* --------------------------- update_framebuffer ------------------------ *)

\* the result of one update_framebuffer(i, d) that starts from `current`
\* (None or Some(list)) and whose device requests succeed: lines 167-207
UpdatedFramebuffer(current, i, d) ==
    LET framebuffer ==
            IF current = None \/ Len(current[1]) = 0
            THEN CreateFramebuffer(i)
            ELSE current[1]
    IN  PatchFramebuffer(ExtendFramebuffer(framebuffer, i), i, d)

\* the cache when line 231 suspends: the list that line 193 appends to is the
\* cached list itself whenever get_current_framebuffer returned the cache
CacheAtFirstAwait(i) ==
    IF AliasesCache
    THEN Some(ExtendFramebuffer(cached_framebuffer[1], i))
    ELSE cached_framebuffer

\* line 158: a task calls update_framebuffer(i, d) and reaches the lock.
\* Tasks are interchangeable: a new call runs in the first idle one.
EnterUpdateFramebuffer(t, i, d) ==
    /\ pc[t] = "idle"
    /\ \A u \in Tasks : u < t => pc[u] # "idle"
    /\ pc' = [pc EXCEPT ![t] = "waiting"]
    /\ bulb_index' = [bulb_index EXCEPT ![t] = i]
    /\ bulb_data' = [bulb_data EXCEPT ![t] = d]
    /\ calls' = calls + 1
    /\ UNCHANGED << context_vars, resource_vars, new_framebuffer,
                    requests, read_before, undisturbed, device_before,
                    sequential, clean, last_ok >>

\* a call of update_framebuffer by any caller, as long as calls are left
UpdateFramebufferCall(t, i, d) ==
    /\ calls < MaxCalls
    /\ EnterUpdateFramebuffer(t, i, d)
    /\ UNCHANGED device_vars

\* lines 162-231: take the lock, read, create or extend, copy, patch, and
\* issue the first device request (color-sequence-v2 / custom-1)
AcquireAndSend(t) ==
    /\ pc[t] = "waiting"
    /\ CanAcquire(t)
    /\ LET current == GetCurrentFramebuffer
           i == bulb_index[t]
           d == bulb_data[t]
       IN  /\ state_lock' = t
           /\ cached_framebuffer' = CacheAtFirstAwait(i)
           /\ new_framebuffer' =
                  [new_framebuffer EXCEPT ![t] = UpdatedFramebuffer(current, i, d)]
           /\ read_before' = [read_before EXCEPT ![t] = current]
           /\ undisturbed' = [undisturbed EXCEPT ![t] = TRUE]
           /\ device_before' = [device_before EXCEPT ![t] = device_framebuffer]
           /\ sequential' =
                  IF clean
                  THEN Some(UpdatedFramebuffer(
                           IF sequential = None THEN current ELSE sequential, i, d))
                  ELSE None
    /\ pc' = [pc EXCEPT ![t] = "req1"]
    /\ requests' = [requests EXCEPT ![t] = 1]
    /\ UNCHANGED << device_vars, resource_vars, bulb_index, bulb_data, calls,
                    clean, last_ok >>

\* a bug: the lock taken with acquire() and never released
ReturnLockHeld(t) ==
    /\ state_lock' = state_lock
    /\ pc' = [pc EXCEPT ![t] = "idle"]
    /\ bulb_index' = [bulb_index EXCEPT ![t] = 0]
    /\ bulb_data' = [bulb_data EXCEPT ![t] = PatchOff]
    /\ new_framebuffer' = [new_framebuffer EXCEPT ![t] = << >>]
    /\ requests' = [requests EXCEPT ![t] = 0]
    /\ read_before' = [read_before EXCEPT ![t] = None]
    /\ undisturbed' = [undisturbed EXCEPT ![t] = FALSE]
    /\ device_before' = [device_before EXCEPT ![t] = << >>]

\* the end of the call: the async with block releases the lock and the
\* task's locals are gone
Return(t) ==
    /\ state_lock' = 0
    /\ pc' = [pc EXCEPT ![t] = "idle"]
    /\ bulb_index' = [bulb_index EXCEPT ![t] = 0]
    /\ bulb_data' = [bulb_data EXCEPT ![t] = PatchOff]
    /\ new_framebuffer' = [new_framebuffer EXCEPT ![t] = << >>]
    /\ requests' = [requests EXCEPT ![t] = 0]
    /\ read_before' = [read_before EXCEPT ![t] = None]
    /\ undisturbed' = [undisturbed EXCEPT ![t] = FALSE]
    /\ device_before' = [device_before EXCEPT ![t] = << >>]

\* a different design: one request carries the array and the mode switch
SequenceRequestReturnsCombined(t) ==
    /\ pc[t] = "req1"
    /\ device_framebuffer' = new_framebuffer[t]
    /\ device_mode' = "individual"
    /\ cached_framebuffer' = Some(new_framebuffer[t])
    /\ last_ok' = [last_ok EXCEPT ![bulb_index[t]] = Some(bulb_data[t])]
    /\ Return(t)
    /\ UNCHANGED << resource_vars, device_on, calls, sequential, clean >>

\* lines 231-243: the first request returns (the device took the array) and
\* the second request (color-mode individual, color-individual custom-1) is issued
SequenceRequestReturns(t) ==
    /\ pc[t] = "req1"
    /\ device_framebuffer' = new_framebuffer[t]
    /\ pc' = [pc EXCEPT ![t] = "req2"]
    /\ requests' = [requests EXCEPT ![t] = 2]
    /\ UNCHANGED << context_vars, resource_vars, device_mode, device_on,
                    bulb_index, bulb_data, new_framebuffer, read_before,
                    undisturbed, device_before, history_vars >>

\* a bug: the lock taken with acquire() and released on the way to return
\* True only, so that a call that fails keeps it
ReturnFalseLockHeld(t) ==
    /\ state_lock' = state_lock
    /\ pc' = [pc EXCEPT ![t] = "idle"]
    /\ bulb_index' = [bulb_index EXCEPT ![t] = 0]
    /\ bulb_data' = [bulb_data EXCEPT ![t] = PatchOff]
    /\ new_framebuffer' = [new_framebuffer EXCEPT ![t] = << >>]
    /\ requests' = [requests EXCEPT ![t] = 0]
    /\ read_before' = [read_before EXCEPT ![t] = None]
    /\ undisturbed' = [undisturbed EXCEPT ![t] = FALSE]
    /\ device_before' = [device_before EXCEPT ![t] = << >>]
    /\ clean' = FALSE
    /\ sequential' = None
    /\ UNCHANGED << cached_framebuffer, device_vars, resource_vars, calls,
                    last_ok >>

\* lines 269-273: except Exception: return False
ReturnFalse(t) ==
    /\ Return(t)
    /\ clean' = FALSE
    /\ sequential' = None
    /\ UNCHANGED << cached_framebuffer, device_vars, resource_vars, calls,
                    last_ok >>

\* the first request raises (the device did not take the array)
SequenceRequestRaises(t) ==
    /\ pc[t] = "req1"
    /\ ReturnFalse(t)

\* lines 243-267: the second request returns; the cache is replaced; return True
ModeRequestReturns(t) ==
    /\ pc[t] = "req2"
    /\ device_mode' = "individual"
    /\ cached_framebuffer' = Some(new_framebuffer[t])
    /\ last_ok' = [last_ok EXCEPT ![bulb_index[t]] = Some(bulb_data[t])]
    /\ Return(t)
    /\ UNCHANGED << resource_vars, device_framebuffer, device_on, calls,
                    sequential, clean >>

\* the second request raises (the device keeps its color mode)
ModeRequestRaises(t) ==
    /\ pc[t] = "req2"
    /\ ReturnFalse(t)

\* a step in which the call of task t returns False
ReturnsFalse(t) == SequenceRequestRaises(t) \/ ModeRequestRaises(t)

(* ------------------------- lock-free operations ------------------------ *)

\* whether a step leaves what get_current_framebuffer returns as it was
StillUndisturbed ==
    [t \in Tasks |-> undisturbed[t] /\ GetCurrentFramebuffer' = GetCurrentFramebuffer]

\* a bug: refresh_framebuffer_from_device without line 125, the cache stays
\* cleared when nothing could be parsed
CacheAfterRefreshNotRestored == ReadFramebufferFromResource

\* refresh_framebuffer_from_device, lines 113-127: the value returned
RefreshResult == ReadFramebufferFromResource # None

\* a bug: refresh_framebuffer_from_device stores whatever list the resource
\* holds, an empty one included
CacheAfterRefreshAnyList ==
    IF resource_framebuffer # None
    THEN resource_framebuffer
    ELSE cached_framebuffer

\* refresh_framebuffer_from_device, lines 107-127: the cache after the call.
\* There is no await inside, so the call runs as one step.
CacheAfterRefresh ==
    LET fresh_framebuffer == ReadFramebufferFromResource
    IN  IF fresh_framebuffer # None
        THEN fresh_framebuffer
        ELSE cached_framebuffer

\* a bug: get_current_framebuffer keeps the array it parsed
CacheAfterGetStored == GetCurrentFramebuffer

\* get_current_framebuffer stores nothing: the cache after the call
CacheAfterGet == cached_framebuffer

\* the effect on the context of a call of refresh_framebuffer_from_device
Refreshed ==
    /\ cached_framebuffer' = CacheAfterRefresh
    /\ UNCHANGED << state_lock, device_vars, resource_vars, pc, bulb_index,
                    bulb_data, new_framebuffer, requests, read_before,
                    device_before, calls, last_ok >>
    /\ undisturbed' = StillUndisturbed
    /\ clean' = (clean /\ (sequential = None \/ cached_framebuffer' = cached_framebuffer))
    /\ sequential' = IF clean' THEN sequential ELSE None

\* a task calls refresh_framebuffer_from_device
RefreshFramebufferFromDevice ==
    /\ Refreshed

\* a task calls get_current_framebuffer
GetCurrentFramebufferCall ==
    /\ cached_framebuffer' = CacheAfterGet
    /\ UNCHANGED << state_lock, device_vars, resource_vars, pc, bulb_index,
                    bulb_data, new_framebuffer, requests, read_before,
                    device_before, history_vars >>
    /\ undisturbed' = StillUndisturbed

\* a task calls get_power_state
GetPowerStateCall ==
    /\ UNCHANGED << context_vars, device_vars, resource_vars, task_vars,
                    history_vars >>

\* set_power_state(power_state), lines 277-283: the request returns
SetPowerStateReturns(power_state) ==
    /\ device_on' = (power_state = "on")
    /\ UNCHANGED << context_vars, resource_vars, device_framebuffer, device_mode,
                    task_vars, history_vars >>

\* set_power_state(power_state), lines 284-286: the request raises
SetPowerStateRaises(power_state) ==
    /\ UNCHANGED << context_vars, device_vars, resource_vars, task_vars,
                    history_vars >>

\* HubspaceStringLightBulb._update_bulb_state_from_resource, as far as the
\* context is concerned: refresh when the power state is "on", then read
UpdateBulbStateFromResource ==
    /\ IF GetPowerState = "on"
       THEN Refreshed
       ELSE UNCHANGED << context_vars, device_vars, resource_vars, task_vars,
                         history_vars >>

\* the bridge brings the resource up to date with the device (the event
\* that on_update receives)
ResourceUpdated ==
    /\ resource_framebuffer' = Some(device_framebuffer)
    /\ resource_on' = IF device_on THEN "on" ELSE "off"
    /\ UNCHANGED << context_vars, device_vars, pc, bulb_index, bulb_data,
                    new_framebuffer, requests, read_before, device_before,
                    history_vars >>
    /\ undisturbed' = StillUndisturbed

\* the registry and the bulb entities, which the operations on the context
\* of one device leave alone
outside_vars == << registry_vars, entity_vars, dual_vars, factory_vars >>

\* the operations on the context of one device
Next ==
    \/ \E t \in Tasks, i \in Indices, d \in Patches :
          UpdateFramebufferCall(t, i, d) /\ UNCHANGED outside_vars
    \/ \E t \in Tasks : AcquireAndSend(t) /\ UNCHANGED outside_vars
    \/ \E t \in Tasks : SequenceRequestReturns(t) /\ UNCHANGED outside_vars
    \/ \E t \in Tasks : SequenceRequestRaises(t) /\ UNCHANGED outside_vars
    \/ \E t \in Tasks : ModeRequestReturns(t) /\ UNCHANGED outside_vars
    \/ \E t \in Tasks : ModeRequestRaises(t) /\ UNCHANGED outside_vars
    \/ RefreshFramebufferFromDevice /\ UNCHANGED outside_vars
    \/ GetCurrentFramebufferCall /\ UNCHANGED outside_vars
    \/ GetPowerStateCall /\ UNCHANGED outside_vars
    \/ \E s \in {"on", "off"} : SetPowerStateReturns(s) /\ UNCHANGED outside_vars
    \/ \E s \in {"on", "off"} : SetPowerStateRaises(s) /\ UNCHANGED outside_vars
    \/ UpdateBulbStateFromResource /\ UNCHANGED outside_vars
    \/ ResourceUpdated /\ UNCHANGED outside_vars

Spec == Init /\ [][Next]_vars

\* the event loop runs every task that can run: a task waiting for the lock
\* takes it once it stays free (asyncio.Lock wakes its waiters in turn), and
\* each device request returns or raises
Fairness ==
    \A t \in Tasks :
        /\ WF_vars(AcquireAndSend(t) /\ UNCHANGED outside_vars)
        /\ WF_vars((SequenceRequestReturns(t) \/ SequenceRequestRaises(t))
                       /\ UNCHANGED outside_vars)
        /\ WF_vars((ModeRequestReturns(t) \/ ModeRequestRaises(t))
                       /\ UNCHANGED outside_vars)

\* the operations on the context of one device under that scheduling
LiveSpec == Spec /\ Fairness

\* the state after construction when the resource may also hold a framebuffer
\* list with no bulb in it
EmptyListInit ==
    /\ InitBesideResource
    /\ resource_framebuffer \in {None, Some(<< >>), Some(InitialDeviceFramebuffer)}
    /\ dual_device = InitialDualDevice

\* the operations on the context of one device whose resource may hold an
\* empty framebuffer list
EmptyListSpec == EmptyListInit /\ [][Next]_vars

(* ------------------------- HubspaceStringLightBulb --------------------- *)

\* the kwargs a turn-on is given: each of brightness, rgb_color and
\* color_temp_kelvin present or absent
KwargsSet ==
    [brightness : {None, Some(128)},
     rgb_color : {None, Some(<< 10, 20, 30 >>)},
     color_temp_kelvin : {None, Some(2700)}]

\* homeassistant.util.color.brightness_to_value((1, 100), brightness), then
\* int(): the brightness 1..255 on the scale 1..100, truncated
BrightnessToValue(brightness) == (brightness * 100) \div 255

\* dict.get(key, default)
DictGet(dict, key, default) == IF key \in DOMAIN dict THEN dict[key] ELSE default

\* a dict without keys
EmptyDict == [f \in {} |-> 0]

\* lines 776-787: the brightness fields set from ATTR_BRIGHTNESS
BrightnessUpdates(kw) ==
    IF kw.brightness = None
    THEN EmptyDict
    ELSE LET brightness == BrightnessToValue(kw.brightness[1])
         IN  IF kw.rgb_color # None
             THEN [colorBrightness |-> brightness, whiteBrightness |-> 0]
             ELSE IF kw.color_temp_kelvin # None
                  THEN [whiteBrightness |-> brightness, colorBrightness |-> 0]
                  ELSE [colorBrightness |-> brightness]

\* a bug: a color always comes at full brightness
RgbUpdatesFullBrightness(bulb_updates, kw) ==
    IF kw.rgb_color = None
    THEN bulb_updates
    ELSE DictUpdate(bulb_updates,
             [r |-> kw.rgb_color[1][1], g |-> kw.rgb_color[1][2],
              b |-> kw.rgb_color[1][3],
              colorBrightness |-> 100,
              whiteBrightness |-> 0])

\* lines 790-796: the fields set from ATTR_RGB_COLOR
RgbUpdates(bulb_updates, kw) ==
    IF kw.rgb_color = None
    THEN bulb_updates
    ELSE DictUpdate(bulb_updates,
             [r |-> kw.rgb_color[1][1], g |-> kw.rgb_color[1][2],
              b |-> kw.rgb_color[1][3],
              colorBrightness |-> DictGet(bulb_updates, "colorBrightness", 100),
              whiteBrightness |-> 0])

\* lines 799-806: the fields set from ATTR_COLOR_TEMP_KELVIN
ColorTempUpdates(bulb_updates, kw) ==
    IF kw.color_temp_kelvin = None
    THEN bulb_updates
    ELSE DictUpdate(bulb_updates,
             [cct |-> kw.color_temp_kelvin[1],
              whiteBrightness |-> DictGet(bulb_updates, "whiteBrightness", 100),
              colorBrightness |-> 0,
              r |-> 0, g |-> 0, b |-> 0])

\* lines 767-810: bulb_updates of async_turn_on(**kwargs)
TurnOnUpdates(kw) ==
    LET bulb_updates ==
            ColorTempUpdates(RgbUpdates(BrightnessUpdates(kw), kw), kw)
    IN  IF DOMAIN bulb_updates = {} THEN PatchOn ELSE bulb_updates

\* whether a dict has a brightness above zero (lines 645, 818-819)
HasBrightness(dict) ==
    DictGet(dict, "colorBrightness", 0) > 0 \/ DictGet(dict, "whiteBrightness", 0) > 0

\* the commands given so far: those that called update_framebuffer and
\* those still at their set_power_state request
CommandsGiven ==
    calls + Cardinality({e \in Entities : command[e] = "on_power"})

\* the entity e calls update_framebuffer(self._bulb_index, bulb_updates):
\* lines 813 and 833
EntityCallsUpdate(e, bulb_updates, next_command) ==
    /\ \E t \in Tasks :
          /\ EnterUpdateFramebuffer(t, e, bulb_updates)
          /\ task' = [task EXCEPT ![e] = t]
    /\ command' = [command EXCEPT ![e] = next_command]

\* async_turn_on(**kw), lines 767-773 and, when the string light is on
\* already, on to line 813
AsyncTurnOn(e, kw) ==
    /\ command[e] = "idle"
    /\ IF GetPowerState # "on"
       THEN /\ command' = [command EXCEPT ![e] = "on_power"]
            /\ UNCHANGED << context_vars, resource_vars, task_vars,
                            history_vars, task >>
       ELSE EntityCallsUpdate(e, TurnOnUpdates(kw), "on_update")
    /\ kwargs' = [kwargs EXCEPT ![e] = kw]
    /\ UNCHANGED << device_vars, is_on, current_bulb_state, trip >>

\* line 773: set_power_state("on") is over, whether the request returned
\* (applied is TRUE) or raised; its result is not looked at. Lines 775-813 follow
AsyncTurnOnPowered(e, applied) ==
    /\ command[e] = "on_power"
    /\ EntityCallsUpdate(e, TurnOnUpdates(kwargs[e]), "on_update")
    /\ device_on' = (applied \/ device_on)
    /\ UNCHANGED << device_framebuffer, device_mode, is_on, current_bulb_state,
                    kwargs, trip >>

\* a bug: async_turn_off also switches the device's power off
AsyncTurnOffPowersDown(e) ==
    /\ command[e] = "idle"
    /\ EntityCallsUpdate(e, PatchOff, "off_update")
    /\ device_on' = FALSE
    /\ UNCHANGED << device_framebuffer, device_mode, is_on, current_bulb_state,
                    kwargs, trip >>

\* async_turn_off, lines 827-833
AsyncTurnOff(e) ==
    /\ command[e] = "idle"
    /\ EntityCallsUpdate(e, PatchOff, "off_update")
    /\ UNCHANGED << device_vars, is_on, current_bulb_state, kwargs, trip >>

\* the update_framebuffer call of the entity e goes on: the lock is taken
\* and the first request issued, or the first request returns
EntityAcquireAndSend(e) ==
    /\ command[e] \in {"on_update", "off_update"}
    /\ AcquireAndSend(task[e])
    /\ UNCHANGED entity_vars

EntitySequenceRequestReturns(e) ==
    /\ command[e] \in {"on_update", "off_update"}
    /\ SequenceRequestReturns(task[e])
    /\ UNCHANGED entity_vars

\* lines 815-822 and 835-841: self._current_bulb_state after the command,
\* success being what update_framebuffer returned
BulbStateAfterCommand(e, success) ==
    IF success
    THEN DictUpdate(current_bulb_state[e], bulb_data[task[e]])
    ELSE current_bulb_state[e]

\* a bug: the entity shows the commanded state whatever update_framebuffer
\* returned
IsOnAfterCommandOptimistic(e, success) == command[e] = "on_update"

\* lines 815-822 and 835-841: self._is_on after the command
IsOnAfterCommand(e, success) ==
    IF success
    THEN IF command[e] = "on_update"
         THEN HasBrightness(BulbStateAfterCommand(e, TRUE))
         ELSE FALSE
    ELSE is_on[e]

\* whether the kwargs name a color and no color temperature
ColorOnly(kw) == kw.rgb_color # None /\ kw.color_temp_kelvin = None

\* the trip of e after its command succeeded: a turn-on with a color begins
\* a trip or, after the turn-off, completes it
TripAfterSuccess(e) ==
    IF command[e] = "on_update" /\ ColorOnly(kwargs[e])
    THEN IF trip[e].stage = 2 /\ trip[e].kwargs = kwargs[e]
         THEN [trip[e] EXCEPT !.stage = 3]
         ELSE [stage |-> 1, kwargs |-> kwargs[e],
               slot |-> Some(new_framebuffer[task[e]][e + 1])]
    ELSE IF command[e] = "off_update" /\ trip[e].stage = 1
         THEN [trip[e] EXCEPT !.stage = 2]
         ELSE NoTrip

\* the command of e is over: the handler returns
CommandOver(e) ==
    /\ command' = [command EXCEPT ![e] = "idle"]
    /\ kwargs' = [kwargs EXCEPT ![e] = NoKwargs]
    /\ task' = [task EXCEPT ![e] = 0]

\* update_framebuffer returns True to the entity e: lines 815-820, 835-839
EntityUpdateReturnsTrue(e) ==
    /\ command[e] \in {"on_update", "off_update"}
    /\ ModeRequestReturns(task[e])
    /\ current_bulb_state' =
          [current_bulb_state EXCEPT ![e] = BulbStateAfterCommand(e, TRUE)]
    /\ is_on' = [is_on EXCEPT ![e] = IsOnAfterCommand(e, TRUE)]
    /\ trip' = [trip EXCEPT ![e] = TripAfterSuccess(e)]
    /\ CommandOver(e)

\* update_framebuffer returns False to the entity e: lines 821-822, 840-841
EntityUpdateReturnsFalse(e) ==
    /\ command[e] \in {"on_update", "off_update"}
    /\ ReturnsFalse(task[e])
    /\ current_bulb_state' =
          [current_bulb_state EXCEPT ![e] = BulbStateAfterCommand(e, FALSE)]
    /\ is_on' = [is_on EXCEPT ![e] = IsOnAfterCommand(e, FALSE)]
    /\ trip' = [trip EXCEPT ![e] = NoTrip]
    /\ CommandOver(e)

\* lines 632-677: the local state of e read from the array that
\* get_current_framebuffer returns, or the fallback on the power state
BulbStateFromFramebuffer(e, current_framebuffer, power_state) ==
    IF current_framebuffer # None /\ e < Len(current_framebuffer[1])
    THEN DictUpdate(current_bulb_state[e], current_framebuffer[1][e + 1])
    ELSE IF power_state = "on"
         THEN DictUpdate(current_bulb_state[e],
                  [r |-> 255, g |-> 255, b |-> 255,
                   colorBrightness |-> 50, whiteBrightness |-> 0])
         ELSE current_bulb_state[e]

\* a bug: a bulb counts as on only while the device's power state is "on"
IsOnFromFramebufferPowered(e, current_framebuffer, power_state) ==
    /\ power_state = "on"
    /\ \/ current_framebuffer = None
       \/ e >= Len(current_framebuffer[1])
       \/ HasBrightness(current_framebuffer[1][e + 1])

\* lines 635-645 and 660-673: self._is_on from the slot of the array, or the
\* fallback on the power state
IsOnFromFramebuffer(e, current_framebuffer, power_state) ==
    IF current_framebuffer # None /\ e < Len(current_framebuffer[1])
    THEN HasBrightness(current_framebuffer[1][e + 1])
    ELSE power_state = "on"

\* _update_bulb_state_from_resource of the entity e (its periodic update,
\* or the device update that on_update schedules): the refresh when the
\* power is "on", then the local state from the array
EntityUpdateBulbState(e) ==
    /\ UpdateBulbStateFromResource
    /\ current_bulb_state' =
          [current_bulb_state EXCEPT
              ![e] = BulbStateFromFramebuffer(e, GetCurrentFramebuffer', GetPowerState)]
    /\ is_on' =
          [is_on EXCEPT
              ![e] = IsOnFromFramebuffer(e, GetCurrentFramebuffer', GetPowerState)]
    /\ trip' = IF cached_framebuffer' = cached_framebuffer
               THEN trip
               ELSE [f \in Entities |-> NoTrip]
    /\ UNCHANGED << command, kwargs, task >>

\* the registry and the other lights, which the bulb entities of the string
\* light leave alone
beside_entity_vars == << registry_vars, dual_vars, factory_vars >>

\* the bulb entities of one string light, commanded concurrently
EntityNext ==
    \/ \E e \in Entities, kw \in KwargsSet :
          /\ CommandsGiven < MaxCommands
          /\ AsyncTurnOn(e, kw) /\ UNCHANGED beside_entity_vars
    \/ \E e \in Entities :
          /\ CommandsGiven < MaxCommands
          /\ AsyncTurnOff(e) /\ UNCHANGED beside_entity_vars
    \/ \E e \in Entities, applied \in BOOLEAN :
          AsyncTurnOnPowered(e, applied) /\ UNCHANGED beside_entity_vars
    \/ \E e \in Entities : EntityAcquireAndSend(e) /\ UNCHANGED beside_entity_vars
    \/ \E e \in Entities : EntitySequenceRequestReturns(e) /\ UNCHANGED beside_entity_vars
    \/ \E e \in Entities : EntityUpdateReturnsTrue(e) /\ UNCHANGED beside_entity_vars
    \/ \E e \in Entities : EntityUpdateReturnsFalse(e) /\ UNCHANGED beside_entity_vars
    \/ \E e \in Entities : EntityUpdateBulbState(e) /\ UNCHANGED beside_entity_vars
    \/ ResourceUpdated /\ UNCHANGED outside_vars

EntitySpec == Init /\ [][EntityNext]_vars

\* the state after construction when the string light holds an array with
\* fewer records than the bulb count given to the context
ShortArrayInit ==
    /\ InitBesideDevice
    /\ device_framebuffer = << InitialDeviceFramebuffer[1] >>
    /\ resource_framebuffer \in {None, Some(device_framebuffer)}
    /\ dual_device = InitialDualDevice

\* the bulb entities of a string light that reports fewer records than
\* bulbs were declared
ShortArraySpec == ShortArrayInit /\ [][EntityNext]_vars

\* one bulb entity, the first, given one command after the other
RoundTripNext ==
    \/ \E kw \in KwargsSet :
          /\ CommandsGiven < MaxTripCommands
          /\ AsyncTurnOn(0, kw) /\ UNCHANGED beside_entity_vars
    \/ /\ CommandsGiven < MaxTripCommands
       /\ AsyncTurnOff(0) /\ UNCHANGED beside_entity_vars
    \/ \E applied \in BOOLEAN :
          AsyncTurnOnPowered(0, applied) /\ UNCHANGED beside_entity_vars
    \/ EntityAcquireAndSend(0) /\ UNCHANGED beside_entity_vars
    \/ EntitySequenceRequestReturns(0) /\ UNCHANGED beside_entity_vars
    \/ EntityUpdateReturnsTrue(0) /\ UNCHANGED beside_entity_vars
    \/ EntityUpdateReturnsFalse(0) /\ UNCHANGED beside_entity_vars
    \/ EntityUpdateBulbState(0) /\ UNCHANGED beside_entity_vars
    \/ ResourceUpdated /\ UNCHANGED outside_vars

RoundTripSpec == Init /\ [][RoundTripNext]_vars

(* --------------------------- context registry -------------------------- *)

\* the framebuffer found in the resource of a device: the string light "A"
\* reports its array, "B" reports none yet
ResourceFramebufferOf(d) ==
    IF d = "A" THEN Some(InitialDeviceFramebuffer) ELSE None

\* SharedFramebufferContext.__init__: a free lock and an empty cache
NewContext(d) ==
    [resource |-> d, cached_framebuffer |-> None, state_lock |-> 0,
     new_framebuffer |-> << >>]

\* the contexts created so far
Instances == 1 .. Len(contexts)

\* a bug: get_shared_context without the membership test, a context per call
RegisteredNever(d) == FALSE

\* line 298: resource.id in _shared_contexts
Registered(d) == shared_contexts[d] # 0

\* a bug: cleanup_shared_context that leaves the entry in place
SharedContextsAfterCleanupKept(d) == shared_contexts

\* lines 306-307: del _shared_contexts[device_id] when the id is registered
SharedContextsAfterCleanup(d) ==
    IF shared_contexts[d] # 0
    THEN [shared_contexts EXCEPT ![d] = 0]
    ELSE shared_contexts

\* get_shared_context(resource, ...): creates and registers a context when
\* the id is not registered; the context returned is shared_contexts'[d]
GetSharedContext(d) ==
    /\ Registered(d) \/ Len(contexts) < MaxInstances
    /\ IF Registered(d)
       THEN UNCHANGED << shared_contexts, contexts >>
       ELSE /\ contexts' = Append(contexts, NewContext(d))
            /\ shared_contexts' = [shared_contexts EXCEPT ![d] = Len(contexts) + 1]
    /\ returned' = [returned EXCEPT ![d] = @ \cup {shared_contexts'[d]}]
    /\ cleaned' = [cleaned EXCEPT ![d] = 0]

\* a caller other than a bulb calls get_shared_context
GetSharedContextCall(d) ==
    /\ GetSharedContext(d)
    /\ UNCHANGED << bulbs, context_calls >>

\* cleanup_shared_context(device_id)
CleanupSharedContext(d) ==
    /\ shared_contexts' = SharedContextsAfterCleanup(d)
    /\ returned' = [returned EXCEPT ![d] = {}]
    /\ cleaned' = [cleaned EXCEPT ![d] =
                      IF shared_contexts[d] # 0 THEN shared_contexts[d] ELSE @]
    /\ UNCHANGED << contexts, bulbs, context_calls >>

\* the number of bulbs constructed so far for the resource d: make_entities
\* constructs the bulbs of a resource with bulb_index 0, 1, ... in turn
BulbsOf(d) == Cardinality({n \in 1 .. Len(bulbs) : bulbs[n].resource = d})

\* HubspaceStringLightBulb.__init__(..., resource, bulb_index, total_bulbs):
\* the bulb keeps the context get_shared_context returns
NewBulb(d, i) ==
    /\ Len(bulbs) < MaxBulbs
    /\ i = BulbsOf(d)
    /\ GetSharedContext(d)
    /\ bulbs' = Append(bulbs, [resource |-> d, bulb_index |-> i,
                               shared_context |-> shared_contexts'[d]])
    /\ UNCHANGED context_calls

\* a bug: one lock for all the contexts (a lock kept on the class)
CanAcquireContextClassLock(k) == \A j \in Instances : contexts[j].state_lock = 0

\* async with self._state_lock on the context k
CanAcquireContext(k) == contexts[k].state_lock = 0

\* get_current_framebuffer of the context k
GetCurrentFramebufferOf(k) ==
    IF contexts[k].cached_framebuffer # None
    THEN contexts[k].cached_framebuffer
    ELSE ResourceFramebufferOf(contexts[k].resource)

\* update_framebuffer(i, d) on the context k, lines 162-231: the lock is
\* taken, the array read, grown in place when it is the cached list, copied
\* and patched, and the first device request issued
ContextUpdateFramebuffer(k, i, d) ==
    /\ k \in Instances
    /\ context_calls < MaxContextCalls
    /\ CanAcquireContext(k)
    /\ contexts' =
          [contexts EXCEPT
              ![k].state_lock = 1,
              ![k].new_framebuffer =
                  UpdatedFramebuffer(GetCurrentFramebufferOf(k), i, d),
              ![k].cached_framebuffer =
                  IF @ # None THEN Some(ExtendFramebuffer(@[1], i)) ELSE @]
    /\ context_calls' = context_calls + 1
    /\ UNCHANGED << shared_contexts, bulbs, returned, cleaned >>

\* lines 231-267 on the context k: both device requests return, the cache is
\* replaced, the lock released
ContextUpdateReturnsTrue(k) ==
    /\ k \in Instances
    /\ contexts[k].state_lock = 1
    /\ contexts' =
          [contexts EXCEPT
              ![k].state_lock = 0,
              ![k].cached_framebuffer = Some(contexts[k].new_framebuffer),
              ![k].new_framebuffer = << >>]
    /\ UNCHANGED << shared_contexts, bulbs, returned, cleaned, context_calls >>

\* lines 269-273 on the context k: a device request raises, the lock is
\* released
ContextUpdateReturnsFalse(k) ==
    /\ k \in Instances
    /\ contexts[k].state_lock = 1
    /\ contexts' =
          [contexts EXCEPT ![k].state_lock = 0, ![k].new_framebuffer = << >>]
    /\ UNCHANGED << shared_contexts, bulbs, returned, cleaned, context_calls >>

\* refresh_framebuffer_from_device on the context k
ContextRefresh(k) ==
    /\ k \in Instances
    /\ contexts' =
          [contexts EXCEPT
              ![k].cached_framebuffer =
                  IF ResourceFramebufferOf(contexts[k].resource) # None
                  THEN ResourceFramebufferOf(contexts[k].resource)
                  ELSE @]
    /\ UNCHANGED << shared_contexts, bulbs, returned, cleaned, context_calls >>

\* set_power_state on the context k: a request to the device of k
ContextSetPowerState(k) ==
    /\ k \in Instances
    /\ UNCHANGED registry_vars

\* the context of the model's one device is idle while the registry is used
ContextIdle ==
    UNCHANGED << context_vars, device_vars, resource_vars, task_vars,
                 history_vars, entity_vars, dual_vars, factory_vars >>

RegistryInit ==
    /\ Init
    /\ device_on = FALSE
    /\ resource_framebuffer = None

\* the bulbs constructed so far
Bulbs == 1 .. Len(bulbs)

\* the context a bulb holds in self._shared_context
ContextOf(n) == bulbs[n].shared_context

\* the context operations are those the bulbs make on the context they hold
RegistryNext ==
    \/ \E d \in ResourceIds : GetSharedContextCall(d) /\ ContextIdle
    \/ \E d \in ResourceIds : CleanupSharedContext(d) /\ ContextIdle
    \/ \E d \in ResourceIds, i \in Indices : NewBulb(d, i) /\ ContextIdle
    \/ \E n \in Bulbs, d \in {PatchOff, PatchRgb} :
          ContextUpdateFramebuffer(ContextOf(n), bulbs[n].bulb_index, d) /\ ContextIdle
    \/ \E n \in Bulbs : ContextUpdateReturnsTrue(ContextOf(n)) /\ ContextIdle
    \/ \E n \in Bulbs : ContextUpdateReturnsFalse(ContextOf(n)) /\ ContextIdle
    \/ \E n \in Bulbs : ContextRefresh(ContextOf(n)) /\ ContextIdle
    \/ \E n \in Bulbs : ContextSetPowerState(ContextOf(n)) /\ ContextIdle

RegistrySpec == RegistryInit /\ [][RegistryNext]_vars

(* --------------------------- dual-channel light ------------------------ *)

\* the kwargs a dual entity's turn-on is given
DualKwargsSet ==
    [brightness : {None, Some(128), Some(204)},
     rgb_color : {None, Some(<< 10, 20, 30 >>)},
     color_temp_kelvin : {None, Some(2700)}]

\* the brightness field of an entity's own channel and of the other channel
OwnBrightness(x) == IF x = "color" THEN "colorBrightness" ELSE "whiteBrightness"
OtherBrightness(x) == IF x = "color" THEN "whiteBrightness" ELSE "colorBrightness"

\* lines 110-114 and 166-170: the brightness sent, 100 when none is given
DualBrightness(kw) ==
    IF kw.brightness # None THEN BrightnessToValue(kw.brightness[1]) ELSE 100

\* a different design: the turn-on names its own channel's brightness only
DualTurnOnRequestOwnChannelOnly(x, kw) ==
    IF x = "color"
    THEN [NoRequest EXCEPT
             !.on = Some(TRUE), !.color = kw.rgb_color,
             !.color_mode = Some("mixed"),
             !.colorBrightness = Some(DualBrightness(kw))]
    ELSE [NoRequest EXCEPT
             !.on = Some(TRUE), !.temperature = kw.color_temp_kelvin,
             !.color_mode = Some("mixed"),
             !.whiteBrightness = Some(DualBrightness(kw))]

\* the arguments of set_state in async_turn_on of HubspaceColorLight (lines
\* 115-125) and of HubspaceWhiteLight (lines 171-181)
DualTurnOnRequest(x, kw) ==
    IF x = "color"
    THEN [NoRequest EXCEPT
             !.on = Some(TRUE), !.color = kw.rgb_color,
             !.color_mode = Some("mixed"),
             !.colorBrightness = Some(DualBrightness(kw)),
             !.whiteBrightness = Some(0)]
    ELSE [NoRequest EXCEPT
             !.on = Some(TRUE), !.temperature = kw.color_temp_kelvin,
             !.color_mode = Some("mixed"),
             !.whiteBrightness = Some(DualBrightness(kw)),
             !.colorBrightness = Some(0)]

\* a bug: the turn-off of a channel switches the device off, as the turn-off
\* of the generic light does
DualTurnOffRequestPowerOff(x) ==
    [NoRequest EXCEPT
        !.on = Some(FALSE), !.color_mode = Some("mixed"),
        ![OwnBrightness(x)] = Some(0)]

\* the arguments of set_state in async_turn_off of HubspaceColorLight (lines
\* 130-135) and of HubspaceWhiteLight (lines 186-191)
DualTurnOffRequest(x) ==
    [NoRequest EXCEPT !.color_mode = Some("mixed"), ![OwnBrightness(x)] = Some(0)]

\* the device once it has taken a set_state request: every argument given
\* replaces the field, the fields of the other arguments stay
DualDeviceAfter(device, request) ==
    [f \in DOMAIN device |->
        IF request[f] # None THEN request[f][1] ELSE device[f]]

\* the entity x issues its request and waits for the bridge
DualIssue(x, command_name, kw, request) ==
    /\ dual_command[x] = "idle"
    /\ dual_command' = [dual_command EXCEPT ![x] = command_name]
    /\ dual_kwargs' = [dual_kwargs EXCEPT ![x] = kw]
    /\ dual_request' = [dual_request EXCEPT ![x] = request]
    /\ dual_commands' = dual_commands + 1
    /\ UNCHANGED dual_device

\* async_turn_on(**kw) of the dual entity x up to its await
DualTurnOn(x, kw) == DualIssue(x, "turn_on", kw, DualTurnOnRequest(x, kw))

\* async_turn_off() of the dual entity x up to its await
DualTurnOff(x) == DualIssue(x, "turn_off", NoKwargs, DualTurnOffRequest(x))

\* the handler of x is over
DualCommandOver(x) ==
    /\ dual_command[x] # "idle"
    /\ dual_command' = [dual_command EXCEPT ![x] = "idle"]
    /\ dual_kwargs' = [dual_kwargs EXCEPT ![x] = NoKwargs]
    /\ dual_request' = [dual_request EXCEPT ![x] = NoRequest]
    /\ UNCHANGED dual_commands

\* the request of x returns: the device has taken it
DualRequestReturns(x) ==
    /\ DualCommandOver(x)
    /\ dual_device' = DualDeviceAfter(dual_device, dual_request[x])

\* the request of x raises: the device is as it was
DualRequestRaises(x) ==
    /\ DualCommandOver(x)
    /\ UNCHANGED dual_device

\* the string light and the registry, which a dual-channel light leaves alone
beside_dual_vars ==
    << context_vars, device_vars, resource_vars, task_vars, history_vars,
       registry_vars, entity_vars, factory_vars >>

\* the two entities of one dual-channel light, commanded concurrently
DualNext ==
    \/ \E x \in DualEntities, kw \in DualKwargsSet :
          /\ dual_commands < MaxDualCommands
          /\ DualTurnOn(x, kw) /\ UNCHANGED beside_dual_vars
    \/ \E x \in DualEntities :
          /\ dual_commands < MaxDualCommands
          /\ DualTurnOff(x) /\ UNCHANGED beside_dual_vars
    \/ \E x \in DualEntities : DualRequestReturns(x) /\ UNCHANGED beside_dual_vars
    \/ \E x \in DualEntities : DualRequestRaises(x) /\ UNCHANGED beside_dual_vars

DualInit ==
    /\ Init
    /\ device_on = FALSE
    /\ resource_framebuffer = None

DualSpec == DualInit /\ [][DualNext]_vars

\* the dual-channel light starts with both channels dark
DarkDualInit ==
    /\ InitBesideDual
    /\ dual_device =
          [InitialDualDevice EXCEPT !.colorBrightness = 0, !.whiteBrightness = 0]
    /\ device_on = FALSE
    /\ resource_framebuffer = None

DarkDualSpec == DarkDualInit /\ [][DualNext]_vars

(* ------------------------- capability classifier ---------------------- *)

\* str.lower()
RECURSIVE Lower(_)
Lower(s) ==
    IF Len(s) = 0
    THEN s
    ELSE LET c == SubSeq(s, 1, 1)
         IN  (CASE c = "A" -> "a" [] c = "B" -> "b" [] c = "C" -> "c"
                [] c = "D" -> "d" [] c = "E" -> "e" [] c = "F" -> "f"
                [] c = "G" -> "g" [] c = "H" -> "h" [] c = "I" -> "i"
                [] c = "J" -> "j" [] c = "K" -> "k" [] c = "L" -> "l"
                [] c = "M" -> "m" [] c = "N" -> "n" [] c = "O" -> "o"
                [] c = "P" -> "p" [] c = "Q" -> "q" [] c = "R" -> "r"
                [] c = "S" -> "s" [] c = "T" -> "t" [] c = "U" -> "u"
                [] c = "V" -> "v" [] c = "W" -> "w" [] c = "X" -> "x"
                [] c = "Y" -> "y" [] c = "Z" -> "z" [] OTHER -> c)
             \o Lower(SubSeq(s, 2, Len(s)))

\* marker in s
Contains(s, marker) ==
    \E i \in 1 .. (Len(s) - Len(marker) + 1) :
        SubSeq(s, i, i + Len(marker) - 1) = marker

\* s.startswith(prefix)
StartsWith(s, prefix) ==
    Len(s) >= Len(prefix) /\ SubSeq(s, 1, Len(prefix)) = prefix

\* the values of resource.device_information: None, an object with name,
\* default_name, default_image and model (each None or a string), or an
\* object that lacks the two name attributes
DeviceInformations ==
    {None, Some([default_image |-> None, model |-> None])}
    \cup {Some(i) :
            i \in [name : {None, Some("Porch FlushMount"), Some("Patio String Light")},
                   default_name :
                       {None, Some("String Lights"), Some("Flushmount Fixture")},
                   default_image : {None, Some("STRING_icon.png")},
                   model : {None, Some("HB-10521-HS"), Some("HB-17122")}]}

\* an instance of a function class: its state (the per-bulb list, when it
\* holds one), its capabilities (attribute name to value) and its
\* default_framebuffer_size
InstanceSet ==
    [state : {None, Some(<< >>), Some([k \in 1 .. 3 |-> DefaultBulb])},
     capabilities :
        {None, Some([a \in {"maxBulbs"} |-> 5]),
         Some([a \in {"maxBulbs", "led_count"} |->
                  IF a = "maxBulbs" THEN 0 ELSE 6])},
     default_framebuffer_size : {None, Some(7)}]

\* resource.instances holding the function classes in `classes`, each with
\* the instance given; kind "list" is a list of the names instead of a dict
InstancesOf(kind, classes, instance) ==
    [kind |-> kind, items |-> [c \in classes |-> instance]]

\* the resources handed to the classifier: every combination of the
\* capability flags, the device information and the kinds of instances, and
\* for the bulb count every combination of its sources
Lights ==
    LET plain == [state |-> None, capabilities |-> None,
                  default_framebuffer_size |-> None]
        resource(flags, info, instances, bulb_states) ==
            [id |-> "A",
             color_mode |-> flags[1],
             supports_color |-> flags[2], color |-> flags[2],
             supports_color_temperature |-> flags[3],
             color_temperature |-> flags[3],
             supports_dimming |-> flags[4],
             device_information |-> info,
             instances |-> instances,
             bulb_states |-> bulb_states]
    IN  {resource(flags, info, InstancesOf("dict", {"power"}, plain), None) :
            flags \in BOOLEAN \X BOOLEAN \X BOOLEAN \X BOOLEAN,
            info \in DeviceInformations}
        \cup
        {resource(flags, info, instances, None) :
            flags \in {<< FALSE, FALSE, FALSE, FALSE >>, << TRUE, TRUE, TRUE, TRUE >>},
            info \in DeviceInformations,
            instances \in {InstancesOf("dict", {}, plain),
                           InstancesOf("dict", {"color-sequence-v2"}, plain),
                           InstancesOf("list", {"color-sequence-v2"}, plain)}}
        \cup
        {resource(<< FALSE, FALSE, FALSE, FALSE >>, info,
                  InstancesOf("dict", {"color-sequence-v2"}, instance), bulb_states) :
            info \in {None,
                      Some([name |-> None, default_name |-> None,
                            default_image |-> None, model |-> Some("HB-10521-HS")])},
            instance \in InstanceSet,
            bulb_states \in {None, Some([k \in 1 .. 4 |-> DefaultBulb])}}

\* the lowercased name and default_name of the device information
DeviceNames(resource) ==
    LET info == resource.device_information
    IN  IF info = None
        THEN {}
        ELSE {Lower(n[1]) : n \in {info[1].name, info[1].default_name} \ {None}}

\* reading device_information.name raises: the object lacks the attribute
NameRaises(resource) ==
    /\ resource.device_information # None
    /\ "name" \notin DOMAIN resource.device_information[1]

\* a bug: has_separate_brightness_controls without the dimming condition
HasSeparateBrightnessControlsNoDimming(resource) ==
    IF NameRaises(resource)
    THEN FALSE
    ELSE /\ resource.supports_color \/ resource.color
         /\ resource.supports_color_temperature \/ resource.color_temperature
         /\ \E identifier \in DeviceNames(resource) :
               Contains(identifier, "flushmount")

\* has_separate_brightness_controls; an exception yields False
HasSeparateBrightnessControls(resource) ==
    IF NameRaises(resource)
    THEN FALSE
    ELSE LET has_color == resource.supports_color \/ resource.color
             has_temperature ==
                 resource.supports_color_temperature \/ resource.color_temperature
             has_dimming == resource.supports_dimming
         IN  /\ has_color /\ has_temperature /\ has_dimming
             /\ \E identifier \in DeviceNames(resource) :
                   Contains(identifier, "flushmount")

\* has_mixed_mode_capability
HasMixedModeCapability(resource) ==
    IF resource.color_mode THEN HasSeparateBrightnessControls(resource) ELSE FALSE

\* should_create_dual_lights
ShouldCreateDualLights(resource) ==
    HasMixedModeCapability(resource) /\ HasSeparateBrightnessControls(resource)

\* whether resource.instances is non-empty and names the function class
\* color-sequence-v2
HasSequenceInstance(resource) ==
    "color-sequence-v2" \in DOMAIN resource.instances.items

\* a bug: has_string_light_capability asks for the function class and a marker
HasStringLightCapabilityBoth(resource) ==
    IF NameRaises(resource)
    THEN FALSE
    ELSE /\ HasSequenceInstance(resource)
         /\ \E device_name \in DeviceNames(resource) :
               Contains(device_name, "string") /\ Contains(device_name, "light")

\* has_string_light_capability; an exception yields False
HasStringLightCapability(resource) ==
    IF NameRaises(resource)
    THEN FALSE
    ELSE LET info == resource.device_information
             by_name ==
                 \E device_name \in DeviceNames(resource) :
                     Contains(device_name, "string") /\ Contains(device_name, "light")
             has_framebuffer == HasSequenceInstance(resource)
             has_string_light_indicators ==
                 /\ info # None
                 /\ \/ /\ info[1].default_image # None
                       /\ Contains(Lower(info[1].default_image[1]), "string")
                    \/ /\ info[1].default_name # None
                       /\ Lower(info[1].default_name[1]) = "string lights"
                    \/ /\ info[1].model # None
                       /\ StartsWith(info[1].model[1], "HB-")
                       /\ Contains(info[1].model[1], "HS")
         IN  by_name \/ has_framebuffer \/ has_string_light_indicators

\* _extract_bulb_count_from_state: the length of the list in the state of
\* the color-sequence-v2 instance, else of a list attribute of the resource
\* whose name has 'framebuffer' or 'bulb' in it, else 0; indexing a list of
\* instances by the class name raises, which yields 0
ExtractBulbCountFromState(resource) ==
    LET from_instance ==
            IF HasSequenceInstance(resource)
            THEN LET state == resource.instances.items["color-sequence-v2"].state
                 IN  IF state # None /\ Len(state[1]) > 0 THEN Len(state[1]) ELSE 0
            ELSE 0
    IN  IF HasSequenceInstance(resource) /\ resource.instances.kind = "list"
        THEN 0
        ELSE IF from_instance > 0
             THEN from_instance
             ELSE IF resource.bulb_states # None /\ Len(resource.bulb_states[1]) > 0
                  THEN Len(resource.bulb_states[1])
                  ELSE 0

\* lines 506-528: the count an instance declares: maxBulbs or max_bulbs, else
\* a positive capability whose name has 'bulb', 'led' or 'count' in it, else
\* default_framebuffer_size; 0 when it declares none
DeclaredBulbCount(instance) ==
    LET capabilities ==
            IF instance.capabilities = None
            THEN [a \in {} |-> 0]
            ELSE instance.capabilities[1]
        get(a) == IF a \in DOMAIN capabilities THEN capabilities[a] ELSE 0
        max_bulbs == IF get("maxBulbs") # 0 THEN get("maxBulbs") ELSE get("max_bulbs")
        named ==
            {a \in DOMAIN capabilities :
                /\ \/ Contains(Lower(a), "bulb")
                   \/ Contains(Lower(a), "led")
                   \/ Contains(Lower(a), "count")
                /\ capabilities[a] > 0}
        size == instance.default_framebuffer_size
    IN  IF max_bulbs > 0
        THEN max_bulbs
        ELSE IF named # {}
             THEN capabilities[CHOOSE a \in named : TRUE]
             ELSE IF size # None /\ size[1] > 0 THEN size[1] ELSE 0

\* a bug: the declared maximum is looked at before the state
GetStringLightBulbCountDeclaredFirst(resource) ==
    LET declared ==
            IF HasSequenceInstance(resource) /\ resource.instances.kind = "dict"
            THEN DeclaredBulbCount(resource.instances.items["color-sequence-v2"])
            ELSE 0
    IN  IF declared > 0
        THEN declared
        ELSE IF ExtractBulbCountFromState(resource) > 0
             THEN ExtractBulbCountFromState(resource)
             ELSE 12

\* get_string_light_bulb_count; .keys() of a list of instances raises, which
\* yields 12
GetStringLightBulbCount(resource) ==
    LET bulb_count_from_state == ExtractBulbCountFromState(resource)
        info == resource.device_information
        declared ==
            IF HasSequenceInstance(resource)
            THEN DeclaredBulbCount(resource.instances.items["color-sequence-v2"])
            ELSE 0
    IN  IF bulb_count_from_state > 0
        THEN bulb_count_from_state
        ELSE IF DOMAIN resource.instances.items # {} /\ resource.instances.kind = "list"
             THEN 12
             ELSE IF declared > 0
                  THEN declared
                  ELSE IF /\ info # None
                          /\ "model" \in DOMAIN info[1]
                          /\ info[1].model = Some("HB-10521-HS")
                       THEN 12
                       ELSE 12

\* should_create_string_light_bulbs raises, outside any try: at line 558 when
\* the device information lacks its name, at line 561 when the instances are
\* a list, which has no keys()
StringCheckRaises(resource) ==
    \/ NameRaises(resource)
    \/ DOMAIN resource.instances.items # {} /\ resource.instances.kind = "list"

\* a bug: make_entities asks the string-light check before the dual check
ClassificationStringFirst(resource) ==
    IF StringCheckRaises(resource)
    THEN "single"
    ELSE IF HasStringLightCapability(resource)
         THEN "string"
         ELSE IF ShouldCreateDualLights(resource) THEN "dual" ELSE "single"

\* make_entities, lines 872-894, when no construction raises: "dual",
\* "string" or "single"; line 889 catches what the string check raises
Classification(resource) ==
    IF ShouldCreateDualLights(resource)
    THEN "dual"
    ELSE IF StringCheckRaises(resource)
         THEN "single"
         ELSE IF HasStringLightCapability(resource) THEN "string" ELSE "single"

(* ---------------------------- make_entities --------------------------- *)

\* the controller hands over a resource: the loop of async_setup_entry or
\* a RESOURCE_ADDED event
ResourceAdded(resource) ==
    /\ light = NoLight
    /\ light' = resource
    /\ UNCHANGED << classified, entities, made, registry_vars >>

\* a bug: the classifier keeps the count it found in the resource
ClassifyStoresCount ==
    /\ light # NoLight
    /\ Len(classified) < MaxClassifications
    /\ classified' =
          Append(classified,
                 [resource |-> light,
                  dual |-> ShouldCreateDualLights(light),
                  string |-> HasStringLightCapability(light),
                  classification |-> Classification(light),
                  bulb_count |-> GetStringLightBulbCount(light)])
    /\ light' =
          [light EXCEPT
              !.bulb_states =
                  Some([k \in 1 .. (GetStringLightBulbCount(light) + 1) |-> DefaultBulb])]
    /\ UNCHANGED << entities, made, registry_vars >>

\* the classifier is run on the resource: should_create_dual_lights,
\* has_string_light_capability, the two as make_entities combines them, and
\* get_string_light_bulb_count
Classify ==
    /\ light # NoLight
    /\ Len(classified) < MaxClassifications
    /\ classified' =
          Append(classified,
                 [resource |-> light,
                  dual |-> ShouldCreateDualLights(light),
                  string |-> HasStringLightCapability(light),
                  classification |-> Classification(light),
                  bulb_count |-> GetStringLightBulbCount(light)])
    /\ UNCHANGED << light, entities, made, registry_vars >>

\* get_shared_context on the registry reg (its shared_contexts and contexts)
RegistryAfterGet(reg, d) ==
    IF reg.shared_contexts[d] # 0
    THEN reg
    ELSE [shared_contexts |->
              [reg.shared_contexts EXCEPT ![d] = Len(reg.contexts) + 1],
          contexts |-> Append(reg.contexts, NewContext(d))]

\* a bug: the bulbs are numbered from 1, as their names are
BulbIndexFromOne(i) == i + 1

\* the bulb_index given to the i-th bulb of range(bulb_count)
BulbIndex(i) == i

\* lines 884-887: HubspaceStringLightBulb(..., resource, i, bulb_count) for
\* i from `from` up to `to` - 1, each keeping what get_shared_context returns
RECURSIVE BulbsConstructed(_, _, _, _, _)
BulbsConstructed(reg, d, from, to, bulb_count) ==
    IF from >= to
    THEN [registry |-> reg, bulbs |-> << >>]
    ELSE LET after == RegistryAfterGet(reg, d)
             rest == BulbsConstructed(after, d, from + 1, to, bulb_count)
         IN  [registry |-> rest.registry,
              bulbs |->
                  << [resource |-> d, bulb_index |-> BulbIndex(from),
                      total_bulbs |-> bulb_count,
                      shared_context |-> after.shared_contexts[d]] >>
                  \o rest.bulbs]

\* an entity that is not a bulb of a string light
OtherEntity(kind, d) ==
    [kind |-> kind, resource |-> d, bulb_index |-> 0, total_bulbs |-> 0,
     shared_context |-> 0]

\* a bug: the bulbs constructed before the exception are returned
EntitiesReturnedPartial(classification, raises, d, constructed) ==
    IF classification = "single" \/ (raises /\ constructed = << >>)
    THEN << OtherEntity("generic", d) >>
    ELSE IF classification = "dual"
         THEN << OtherEntity("color", d), OtherEntity("white", d) >>
         ELSE [n \in 1 .. Len(constructed) |-> [kind |-> "bulb"] @@ constructed[n]]

\* what make_entities returns: the entities of lines 875-878 or 884-887, or
\* the one HubspaceLight of line 894 when nothing enhanced applies or line
\* 889 caught an exception
EntitiesReturned(classification, raises, d, constructed) ==
    IF classification = "single" \/ raises
    THEN << OtherEntity("generic", d) >>
    ELSE IF classification = "dual"
         THEN << OtherEntity("color", d), OtherEntity("white", d) >>
         ELSE [n \in 1 .. Len(constructed) |-> [kind |-> "bulb"] @@ constructed[n]]

\* make_entities(resource), lines 870-894. raise_at = 0: no construction
\* raises; raise_at = k: the k-th construction of an enhanced entity raises
\* (when there are that many), which line 889 catches. The generic
\* HubspaceLight of line 894 is constructed outside the try.
MakeEntities(raise_at) ==
    /\ light # NoLight
    /\ Len(made) < MaxMakeEntities
    /\ LET d == light.id
           classification == Classification(light)
           bulb_count == GetStringLightBulbCount(light)
           constructions ==
               IF classification = "dual" THEN 2
               ELSE IF classification = "string" THEN bulb_count ELSE 0
           raises == raise_at > 0 /\ raise_at <= constructions
           completed == IF raises THEN raise_at - 1 ELSE constructions
           built ==
               BulbsConstructed(
                   [shared_contexts |-> shared_contexts, contexts |-> contexts],
                   d, 0,
                   IF classification = "string" THEN completed ELSE 0,
                   bulb_count)
           result == EntitiesReturned(classification, raises, d, built.bulbs)
       IN  /\ entities' =
                 entities \o [n \in 1 .. Len(result) |->
                                 [call |-> Len(made) + 1] @@ result[n]]
           /\ made' = Append(made, [raised |-> raises])
           /\ bulbs' = bulbs \o [n \in 1 .. Len(built.bulbs) |->
                                    [resource |-> d,
                                     bulb_index |-> built.bulbs[n].bulb_index,
                                     shared_context |-> built.bulbs[n].shared_context]]
           /\ shared_contexts' = built.registry.shared_contexts
           /\ contexts' = built.registry.contexts
           /\ returned' =
                 [returned EXCEPT
                     ![d] = @ \cup {built.bulbs[n].shared_context :
                                       n \in 1 .. Len(built.bulbs)}]
           /\ cleaned' = IF Len(built.bulbs) > 0
                         THEN [cleaned EXCEPT ![d] = 0]
                         ELSE cleaned
    /\ UNCHANGED << light, classified, context_calls >>

\* the string light, its entities and the dual-channel light, which the
\* classifier and make_entities leave alone
beside_factory_vars ==
    << context_vars, device_vars, resource_vars, task_vars, history_vars,
       entity_vars, dual_vars >>

\* a resource is handed over, classified and given its entities
FactoryNext ==
    \/ \E resource \in Lights : ResourceAdded(resource) /\ UNCHANGED beside_factory_vars
    \/ Classify /\ UNCHANGED beside_factory_vars
    \/ \E raise_at \in 0 .. MaxRaiseAt :
          MakeEntities(raise_at) /\ UNCHANGED beside_factory_vars

FactorySpec == DualInit /\ [][FactoryNext]_vars

(* ------------------------------ properties ----------------------------- *)

InFlight == {"req1", "req2"}

\* any step of the update_framebuffer call of task t
UpdateStep(t) ==
    \/ \E i \in Indices, d \in Patches : UpdateFramebufferCall(t, i, d)
    \/ AcquireAndSend(t)
    \/ SequenceRequestReturns(t)
    \/ ReturnsFalse(t)
    \/ ModeRequestReturns(t)

\* the list behind an Optional framebuffer, the empty list for None
ListOf(optional) == IF optional = None THEN << >> ELSE optional[1]

\* C1: with every device request returning and no refresh replacing the
\* cache, whenever no call holds the lock the cached framebuffer is the array
\* obtained by applying the patches of the calls one after another in the
\* order the lock was acquired: no patch is lost.
C1_SerializedUpdates ==
    (clean /\ sequential # None /\ \A t \in Tasks : pc[t] \notin InFlight)
        => cached_framebuffer = sequential

\* two calls on the distinct slots 0 and 2 have both returned True, the array
\* carries both edits
C1_Witness ==
    /\ clean
    /\ calls = 2
    /\ \A t \in Tasks : pc[t] = "idle"
    /\ last_ok[0] = Some(PatchRgb)
    /\ last_ok[2] = Some(PatchOn)
    /\ cached_framebuffer = sequential
    /\ cached_framebuffer[1][1].r = 10
    /\ cached_framebuffer[1][3].colorBrightness = 100

\* C2: at most one update_framebuffer call is between acquiring the lock and
\* returning, and that call holds the lock, so no other call can read the
\* cache before it has returned.
C2_MutualExclusion ==
    \A t \in Tasks :
        pc[t] \in InFlight =>
            /\ state_lock = t
            /\ \A u \in Tasks \ {t} : pc[u] \notin InFlight

\* one call is suspended at a device request while another waits for the lock
C2_Witness ==
    \E t, u \in Tasks : pc[t] = "req2" /\ pc[u] = "waiting"

\* what update_framebuffer(i, d) may change between the list `before` and
\* the list `after`: nothing in a slot j # i of `before`, and in slot i only
\* the fields the patch names
OnlyPatched(before, after, i, d) ==
    /\ Len(after) >= Len(before)
    /\ \A j \in 1 .. Len(before) :
        IF j = i + 1
        THEN \A f \in (DOMAIN before[j]) \ (DOMAIN d) : after[j][f] = before[j][f]
        ELSE after[j] = before[j]

\* C3: a successful update_framebuffer(i, patch) leaves every slot j # i that
\* existed before equal to its value before the call, in the array sent to
\* the device and in the cache afterwards, and changes in slot i only the
\* fields the patch names.
C3_OtherSlotsUntouched ==
    [][\A t \in Tasks :
          ModeRequestReturns(t) =>
              /\ device_framebuffer = new_framebuffer[t]
              /\ OnlyPatched(ListOf(read_before[t]), device_framebuffer,
                             bulb_index[t], bulb_data[t])
              /\ cached_framebuffer' # None
              /\ OnlyPatched(ListOf(read_before[t]), cached_framebuffer'[1],
                             bulb_index[t], bulb_data[t])
              /\ \A f \in DOMAIN bulb_data[t] :
                    cached_framebuffer'[1][bulb_index[t] + 1][f] = bulb_data[t][f]]_vars

\* slot 0 was turned off by a successful call that started from the
\* device's two bulbs: its color is kept, slot 1 is as it was
C3_Witness ==
    /\ cached_framebuffer # None
    /\ last_ok[0] = Some(PatchOff)
    /\ last_ok[1] = None
    /\ Len(cached_framebuffer[1]) = 2
    /\ cached_framebuffer[1][1].colorBrightness = 0
    /\ cached_framebuffer[1][1].r = InitialDeviceFramebuffer[1].r
    /\ cached_framebuffer[1][2] = InitialDeviceFramebuffer[2]

\* C4: when update_framebuffer returns False and nothing else touched the
\* context meanwhile, get_current_framebuffer returns afterwards exactly what
\* it returned to the call at line 167.
C4_FailedUpdateKeepsFramebuffer ==
    [][\A t \in Tasks :
          (ReturnsFalse(t) /\ undisturbed[t]) =>
              GetCurrentFramebuffer' = read_before[t]]_vars

\* C5: every array update_framebuffer sends carries, for every slot, the
\* patch of the most recent successful update_framebuffer on that slot (in
\* the slot of the call itself: the fields its own patch does not set).
C5_SentArrayCarriesPriorEdits ==
    \A t \in Tasks :
        pc[t] \in InFlight =>
            \A j \in Indices :
                last_ok[j] # None =>
                    /\ j + 1 <= Len(new_framebuffer[t])
                    /\ \A f \in DOMAIN last_ok[j][1] :
                          (j = bulb_index[t] /\ f \in DOMAIN bulb_data[t])
                          \/ new_framebuffer[t][j + 1][f] = last_ok[j][1][f]

\* the cache as a list has not become shorter, None counting as no slot
NotShorter == Len(ListOf(cached_framebuffer')) >= Len(ListOf(cached_framebuffer))

\* C6, as claimed: the cached framebuffer changes only in a step of
\* update_framebuffer.
C6_CacheChangesOnlyInUpdate ==
    [][cached_framebuffer' # cached_framebuffer =>
          \E t \in Tasks : UpdateStep(t)]_vars

\* C6, amended: the cached framebuffer changes only in a step of
\* update_framebuffer or of refresh_framebuffer_from_device, called directly
\* or by an entity's _update_bulb_state_from_resource; get_current_framebuffer,
\* get_power_state, set_power_state and an update of the resource leave it.
C6_CacheChangesOnlyInUpdateOrRefresh ==
    [][cached_framebuffer' # cached_framebuffer =>
          \/ \E t \in Tasks : UpdateStep(t)
          \/ RefreshFramebufferFromDevice
          \/ UpdateBulbStateFromResource]_vars

\* a refresh has filled the cache although update_framebuffer was never called
C6_Witness ==
    /\ calls = 0
    /\ cached_framebuffer = Some(InitialDeviceFramebuffer)

\* C7: a successful update_framebuffer(i, patch) with i at or beyond the
\* length of the array it found yields an array of length i + 1 whose earlier
\* slots are unchanged, whose added slots other than i are default bulbs and
\* whose slot i is the default bulb overlaid with the patch; and no step of
\* update_framebuffer makes the cached array shorter.
C7_GrowsNeverShrinks ==
    [][\A t \in Tasks :
          /\ (ModeRequestReturns(t) /\ read_before[t] # None
                /\ bulb_index[t] >= Len(read_before[t][1])) =>
                LET before == read_before[t][1]
                    after == cached_framebuffer'[1]
                    i == bulb_index[t]
                IN  /\ Len(after) = i + 1
                    /\ \A j \in 1 .. Len(before) : after[j] = before[j]
                    /\ \A j \in (Len(before) + 1) .. i : after[j] = DefaultBulb
                    /\ after[i + 1] = DictUpdate(DefaultBulb, bulb_data[t])
          /\ UpdateStep(t) => NotShorter]_vars

\* the first half of C7 alone: the shape of the array a growing call yields
C7_GrowthShape ==
    [][\A t \in Tasks :
          (ModeRequestReturns(t) /\ read_before[t] # None
                /\ bulb_index[t] >= Len(read_before[t][1])) =>
                LET before == read_before[t][1]
                    after == cached_framebuffer'[1]
                    i == bulb_index[t]
                IN  /\ Len(after) = i + 1
                    /\ \A j \in 1 .. Len(before) : after[j] = before[j]
                    /\ \A j \in (Len(before) + 1) .. i : after[j] = DefaultBulb
                    /\ after[i + 1] = DictUpdate(DefaultBulb, bulb_data[t])]_vars

\* C8: while an update_framebuffer call is suspended at a device request and
\* nothing else touched the context, get_current_framebuffer returns the
\* array from before the call or the array the call will cache, never
\* another one.
C8_ReadSeesOldOrNew ==
    \A t \in Tasks :
        (pc[t] \in InFlight /\ undisturbed[t]) =>
            \/ GetCurrentFramebuffer = read_before[t]
            \/ GetCurrentFramebuffer = Some(new_framebuffer[t])

\* C9, as claimed: a call issues one device request, and the device has the
\* custom sequence selected as soon as it holds an array a call sent.
C9_SingleCombinedRequest ==
    /\ \A t \in Tasks : requests[t] <= 1
    /\ device_framebuffer # InitialDeviceFramebuffer => device_mode = "individual"

\* C9, amended: a call issues its requests one after the other: the first
\* carries the whole array and leaves the color mode alone, the second is
\* issued once the first has returned and switches the color mode; a call
\* that returns True has issued exactly two requests and the device holds
\* its array, a call that returns False has issued one or two.
C9_TwoRequestsInOrder ==
    [][\A t \in Tasks :
          /\ AcquireAndSend(t) => requests'[t] = 1 /\ UNCHANGED device_vars
          /\ SequenceRequestReturns(t) =>
                /\ requests[t] = 1 /\ requests'[t] = 2
                /\ pc'[t] = "req2"
                /\ device_framebuffer' = new_framebuffer[t]
                /\ device_mode' = device_mode
          /\ ModeRequestReturns(t) =>
                /\ requests[t] = 2
                /\ device_framebuffer = new_framebuffer[t]
                /\ device_mode' = "individual"
          /\ SequenceRequestRaises(t) => requests[t] = 1
          /\ ModeRequestRaises(t) => requests[t] = 2]_vars

\* the array has reached the device, the mode switch is still to come
C9_Witness ==
    \E t \in Tasks :
        /\ pc[t] = "req2"
        /\ requests[t] = 2
        /\ device_framebuffer = new_framebuffer[t]
        /\ device_framebuffer # InitialDeviceFramebuffer
        /\ device_mode = "sequence"

\* C10: when update_framebuffer returns False the device holds the array it
\* held before the call.
C10_FailedUpdateKeepsDevice ==
    [][\A t \in Tasks :
          ReturnsFalse(t) => device_framebuffer' = device_before[t]]_vars

\* C15: refresh_framebuffer_from_device returns true and leaves the array
\* parsed from the resource in the cache when the parse yields a non-empty
\* array; otherwise it returns false and the cache is exactly the cache from
\* before the call, so a non-empty cache is never cleared.
C15_RefreshReplacesOrKeeps ==
    [][RefreshFramebufferFromDevice =>
          /\ IF resource_framebuffer # None /\ Len(resource_framebuffer[1]) > 0
             THEN RefreshResult /\ cached_framebuffer' = Some(resource_framebuffer[1])
             ELSE ~RefreshResult /\ cached_framebuffer' = cached_framebuffer
          /\ cached_framebuffer # None => cached_framebuffer' # None]_vars

\* a call has filled the cache while the resource holds no array: a refresh
\* here returns false and has to keep the cache
C15_Witness ==
    /\ calls > 0
    /\ cached_framebuffer # None
    /\ resource_framebuffer = None
    /\ ~RefreshResult
    /\ CacheAfterRefresh = cached_framebuffer

\* C16: get_current_framebuffer returns the cached array whenever a cache is
\* present, otherwise the array parsed from the resource, otherwise None, and
\* the call leaves the cache as it was (a parsed array is not stored).
C16_GetReturnsCacheElseParsed ==
    [][/\ cached_framebuffer # None => GetCurrentFramebuffer = cached_framebuffer
       /\ (cached_framebuffer = None /\ resource_framebuffer # None) =>
              GetCurrentFramebuffer = resource_framebuffer
       /\ (cached_framebuffer = None /\ resource_framebuffer = None) =>
              GetCurrentFramebuffer = None
       /\ GetCurrentFramebufferCall => cached_framebuffer' = cached_framebuffer]_vars

\* the cache holds one array and the resource another: the read returns the
\* cached one
C16_Witness ==
    /\ cached_framebuffer # None
    /\ resource_framebuffer # None
    /\ cached_framebuffer # resource_framebuffer
    /\ GetCurrentFramebuffer = cached_framebuffer

\* C11: between two cleanups of a resource id every get_shared_context for
\* that id returns the same context, and the contexts returned for different
\* ids are different ones.
C11_OneInstancePerId ==
    /\ \A d \in ResourceIds : Cardinality(returned[d]) <= 1
    /\ \A d, e \in ResourceIds : d # e => returned[d] \cap returned[e] = {}
    /\ \A d \in ResourceIds : \A k \in returned[d] : contexts[k].resource = d

\* two bulbs of "A" were constructed, both calls returned the one context of
\* "A", and "B" has a context of its own
C11_Witness ==
    /\ Len(bulbs) = 2
    /\ bulbs[1].resource = "A" /\ bulbs[2].resource = "A"
    /\ returned["A"] = {bulbs[1].shared_context}
    /\ bulbs[2].shared_context = bulbs[1].shared_context
    /\ returned["B"] # {}
    /\ returned["B"] # returned["A"]

\* C12: the first get_shared_context after cleanup_shared_context(d) returns
\* a context that did not exist before, not the removed one, with an empty
\* cache and a free lock; cleanup_shared_context of an id that is not
\* registered changes neither the registry nor any context.
C12_CleanupThenFreshContext ==
    [][\A d \in ResourceIds :
          /\ (GetSharedContext(d) /\ cleaned[d] # 0) =>
                /\ shared_contexts'[d] # cleaned[d]
                /\ shared_contexts'[d] \notin Instances
                /\ contexts'[shared_contexts'[d]] = NewContext(d)
          /\ (CleanupSharedContext(d) /\ shared_contexts[d] = 0) =>
                UNCHANGED << shared_contexts, contexts, bulbs >>]_vars

\* the context removed for "A" had an array cached; the context registered
\* for "A" now is another one and its cache is empty
C12_Witness ==
    \E k, j \in Instances :
        /\ k # j
        /\ contexts[k].resource = "A" /\ contexts[j].resource = "A"
        /\ contexts[k].cached_framebuffer # None
        /\ shared_contexts["A"] = j
        /\ contexts[j].cached_framebuffer = None

\* C13: all the bulbs of one resource id hold the same context.
C13_BulbsShareOneContext ==
    \A m, n \in 1 .. Len(bulbs) :
        bulbs[m].resource = bulbs[n].resource =>
            bulbs[m].shared_context = bulbs[n].shared_context

\* a step of update_framebuffer, refresh_framebuffer_from_device or
\* set_power_state on the context k
ContextStep(k) ==
    \/ \E i \in Indices, d \in Patches : ContextUpdateFramebuffer(k, i, d)
    \/ ContextUpdateReturnsTrue(k)
    \/ ContextUpdateReturnsFalse(k)
    \/ ContextRefresh(k)
    \/ ContextSetPowerState(k)

\* C14: a step of update_framebuffer, refresh or set_power_state on a context
\* leaves the cache of every context of another resource as it was, and an
\* update_framebuffer on a context whose own lock is free can take the lock
\* whatever calls are in flight on the other contexts.
C14_ContextsIndependent ==
    [][\A k \in Instances :
          /\ ContextStep(k) =>
                \A j \in Instances :
                    contexts[j].resource # contexts[k].resource =>
                        contexts'[j].cached_framebuffer = contexts[j].cached_framebuffer
          /\ (contexts[k].state_lock = 0 /\ context_calls < MaxContextCalls) =>
                ENABLED (ContextUpdateFramebuffer(k, 0, PatchRgb) /\ ContextIdle)]_vars

\* update_framebuffer calls are in flight on the contexts of "A" and of "B"
\* at the same time
C14_Witness ==
    \E k, j \in Instances :
        /\ contexts[k].resource = "A" /\ contexts[j].resource = "B"
        /\ contexts[k].state_lock = 1 /\ contexts[j].state_lock = 1

\* C17: a successful turn-off of the bulb entity e sent the patch colorBrightness
\* 0, whiteBrightness 0 for its own index: in the array the device holds and
\* in the cache afterwards, the r, g, b and cct of its slot and every field of
\* every other slot are as in the array the call read.
C17_TurnOffOnlyZeroesBrightness ==
    [][\A e \in Entities :
          (EntityUpdateReturnsTrue(e) /\ command[e] = "off_update") =>
              LET t == task[e]
                  before == ListOf(read_before[t])
                  after == cached_framebuffer'[1]
              IN  /\ bulb_index[t] = e
                  /\ bulb_data[t] = [colorBrightness |-> 0, whiteBrightness |-> 0]
                  /\ device_framebuffer = after
                  /\ after[e + 1].colorBrightness = 0
                  /\ after[e + 1].whiteBrightness = 0
                  /\ \A j \in 1 .. Len(before) :
                        IF j = e + 1
                        THEN \A f \in {"r", "g", "b", "cct"} :
                                 after[j][f] = before[j][f]
                        ELSE after[j] = before[j]]_vars

\* the first bulb was turned off, the one command given: its slot keeps the
\* device's color and color temperature, the second slot is as the device
\* had it, and the entity shows off
C17_Witness ==
    /\ calls = 1
    /\ command[0] = "idle"
    /\ last_ok[0] = Some([colorBrightness |-> 0, whiteBrightness |-> 0])
    /\ ~is_on[0]
    /\ cached_framebuffer # None
    /\ cached_framebuffer[1][1] =
          [InitialDeviceFramebuffer[1] EXCEPT !.colorBrightness = 0]
    /\ cached_framebuffer[1][2] = InitialDeviceFramebuffer[2]

\* C18: after a successful turn-on with an RGB color c the slot of the bulb
\* has r, g, b equal to c; after the successful turn-off that follows, they
\* are still c; after the successful turn-on with the same arguments that
\* follows, the slot equals its value after the first turn-on (no refresh
\* having replaced the cache in between).
C18_OnOffOnRestoresColor ==
    \A e \in Entities :
        trip[e].stage > 0 =>
            /\ cached_framebuffer # None
            /\ e + 1 <= Len(cached_framebuffer[1])
            /\ LET slot == cached_framebuffer[1][e + 1]
                   c == trip[e].kwargs.rgb_color[1]
               IN  /\ << slot.r, slot.g, slot.b >> = c
                   /\ trip[e].stage = 2 =>
                         slot.colorBrightness = 0 /\ slot.whiteBrightness = 0
                   /\ trip[e].stage = 3 => slot = trip[e].slot[1]

\* the first bulb was turned on with a color, off, and on again
C18_Witness ==
    /\ trip[0].stage = 3
    /\ calls = 3
    /\ is_on[0]
    /\ cached_framebuffer[1][1].r = 10
    /\ cached_framebuffer[1][1].colorBrightness > 0

\* C19: after a successful turn-on the slot of the bulb never has both
\* colorBrightness and whiteBrightness above zero.
C19_OneBrightnessAfterTurnOn ==
    [][\A e \in Entities :
          (EntityUpdateReturnsTrue(e) /\ command[e] = "on_update") =>
              ~ /\ cached_framebuffer'[1][e + 1].colorBrightness > 0
                /\ cached_framebuffer'[1][e + 1].whiteBrightness > 0]_vars

\* C20: when update_framebuffer returns False to a turn-on or turn-off, the
\* entity's is_on and local bulb state are as they were, the handler is over
\* and no further call is made; and no earlier step of the command changed
\* them either.
C20_FailedCommandKeepsState ==
    [][\A e \in Entities :
          /\ EntityUpdateReturnsFalse(e) =>
                /\ is_on'[e] = is_on[e]
                /\ current_bulb_state'[e] = current_bulb_state[e]
                /\ command'[e] = "idle"
                /\ calls' = calls
                /\ \A t \in Tasks : pc'[t] # "idle" => pc[t] # "idle"
          /\ (\/ \E kw \in KwargsSet : AsyncTurnOn(e, kw)
              \/ \E applied \in BOOLEAN : AsyncTurnOnPowered(e, applied)
              \/ AsyncTurnOff(e)
              \/ EntityAcquireAndSend(e)
              \/ EntitySequenceRequestReturns(e)) =>
                /\ is_on'[e] = is_on[e]
                /\ current_bulb_state'[e] = current_bulb_state[e]]_vars

\* the one command given, a turn-on, has failed at its second request: the
\* device holds a new array, the entity still shows off
C20_Witness ==
    /\ calls = 1
    /\ \A e \in Entities : command[e] = "idle" /\ ~is_on[e]
    /\ \A i \in Indices : last_ok[i] = None
    /\ device_on
    /\ device_framebuffer # InitialDeviceFramebuffer

\* C21: a turn-on that finds the power state not "on" issues the power-on
\* request and calls update_framebuffer only when that request is over, and
\* the array of a turn-on is sent to the device only while the device's power
\* is on.
C21_UpdateSentOnlyPoweredOn ==
    [][\A e \in Entities :
          /\ (GetPowerState # "on" /\ \E kw \in KwargsSet : AsyncTurnOn(e, kw)) =>
                /\ command'[e] = "on_power"
                /\ calls' = calls
          /\ (EntityAcquireAndSend(e) /\ command[e] = "on_update") => device_on]_vars

\* C22: a turn-on of the color entity with brightness b leaves the device
\* with colorBrightness b and with the whiteBrightness it had before.
C22_ColorTurnOnKeepsWhite ==
    [][(DualRequestReturns("color") /\ dual_command["color"] = "turn_on"
            /\ dual_kwargs["color"].brightness # None) =>
          /\ dual_device'.colorBrightness =
                 BrightnessToValue(dual_kwargs["color"].brightness[1])
          /\ dual_device'.whiteBrightness = dual_device.whiteBrightness]_vars

C24_TurnOffOwnChannelOnly ==
    [][\A x \in DualEntities :
          (DualRequestReturns(x) /\ dual_command[x] = "turn_off") =>
              /\ dual_device'[OwnBrightness(x)] = 0
              /\ dual_device'[OtherBrightness(x)] = dual_device[OtherBrightness(x)]
              /\ dual_device'.on = dual_device.on]_vars

\* the white entity was turned on at 80 and the color entity then turned
\* off: the power is still on and white still at 80
C24_Witness ==
    /\ dual_commands = 2
    /\ \A x \in DualEntities : dual_command[x] = "idle"
    /\ dual_device.on
    /\ dual_device.whiteBrightness = 80
    /\ dual_device.colorBrightness = 0
    /\ dual_device.temperature = InitialDualDevice.temperature

\* the results of the classifier recorded so far
Classified == {classified[n] : n \in 1 .. Len(classified)}

\* C27: a resource is classified dual-channel only when it has color
\* support, color-temperature support, dimming support and a name or default
\* name that contains 'flushmount' in any letter case; a resource lacking
\* one of the four is never classified dual-channel
C27_DualOnlyWithAllFour ==
    \A c \in Classified :
        c.classification = "dual" =>
            LET r == c.resource
                info == r.device_information
            IN  /\ r.supports_color \/ r.color
                /\ r.supports_color_temperature \/ r.color_temperature
                /\ r.supports_dimming
                /\ info # None
                /\ "name" \in DOMAIN info[1]
                /\ \/ info[1].name = Some("Porch FlushMount")
                   \/ info[1].default_name = Some("Flushmount Fixture")

\* C27 witness: a resource named with the marker in mixed case only, with the
\* three supports, has been classified dual-channel
C27_Witness ==
    \E c \in Classified :
        /\ c.classification = "dual"
        /\ c.resource.supports_dimming
        /\ c.resource.device_information[1].name = Some("Porch FlushMount")
        /\ c.resource.device_information[1].default_name = Some("String Lights")

\* C28: has_string_light_capability returns true exactly when the resource
\* has the function class 'color-sequence-v2' among its instances, or its
\* name or default name has both 'string' and 'light' in it, or its default
\* image has 'string' in it, or its model starts with 'HB-' and has 'HS' in
\* it; it returns false otherwise, and when the inspection raises
C28_StringCapabilityExactly ==
    \A c \in Classified :
        LET r == c.resource
            info == r.device_information
            has(field, values) ==
                /\ info # None
                /\ field \in DOMAIN info[1]
                /\ info[1][field] \in values
        IN  c.string =
               IF info # None /\ "name" \notin DOMAIN info[1]
               THEN FALSE
               ELSE \/ "color-sequence-v2" \in DOMAIN r.instances.items
                    \/ has("name", {Some("Patio String Light")})
                    \/ has("default_name", {Some("String Lights")})
                    \/ has("default_image", {Some("STRING_icon.png")})
                    \/ has("model", {Some("HB-10521-HS")})

\* C28 witness: the classifier found the capability by the function class
\* alone, by the default image alone and by the model alone, and found none
\* for a resource with a flushmount name and the model HB-17122
C28_Witness ==
    LET bare(c) ==
            /\ "color-sequence-v2" \notin DOMAIN c.resource.instances.items
            /\ c.resource.device_information # None
            /\ c.resource.device_information[1].name = None
            /\ c.resource.device_information[1].default_name = None
    IN  \E c \in Classified :
            \/ /\ c.string
               /\ c.resource.device_information = None
               /\ "color-sequence-v2" \in DOMAIN c.resource.instances.items
            \/ /\ c.string
               /\ bare(c)
               /\ c.resource.device_information[1].model = None
               /\ c.resource.device_information[1].default_image # None
            \/ /\ c.string
               /\ bare(c)
               /\ c.resource.device_information[1].model = Some("HB-10521-HS")
               /\ c.resource.device_information[1].default_image = None

\* C29: the bulb count is the length of the per-bulb state the resource
\* already holds (in the color-sequence-v2 instance, else on the resource), if
\* any; else the positive maximum the capability metadata declares; else 12
\* for the model 'HB-10521-HS'; else 12. An earlier source wins over a later
\* one, and the count is positive: 12 when the inspection raises
C29_BulbCountPriority ==
    \A c \in Classified :
        LET r == c.resource
            sequenced ==
                /\ r.instances.kind = "dict"
                /\ "color-sequence-v2" \in DOMAIN r.instances.items
            instance == r.instances.items["color-sequence-v2"]
            held ==
                IF sequenced /\ instance.state \notin {None, Some(<< >>)}
                THEN Len(instance.state[1])
                ELSE IF r.bulb_states # None THEN Len(r.bulb_states[1]) ELSE 0
            declared ==
                IF ~sequenced
                THEN 0
                ELSE IF instance.capabilities = Some([a \in {"maxBulbs"} |-> 5])
                     THEN 5
                     ELSE IF instance.capabilities # None
                          THEN 6
                          ELSE IF instance.default_framebuffer_size # None
                               THEN 7
                               ELSE 0
        IN  /\ c.bulb_count > 0
            /\ c.bulb_count =
                  IF r.instances.kind = "list"
                  THEN 12
                  ELSE IF held > 0
                       THEN held
                       ELSE IF declared > 0 THEN declared ELSE 12

\* C29 witness: a count was taken from the state although a maximum is
\* declared, one from the declared maximum although the model is the known
\* one, and one is the 12 of a resource that declares nothing
C29_Witness ==
    \E c \in Classified :
        /\ c.resource.instances.kind = "dict"
        /\ "color-sequence-v2" \in DOMAIN c.resource.instances.items
        /\ LET instance == c.resource.instances.items["color-sequence-v2"]
           IN  \/ /\ c.bulb_count = 3
                  /\ instance.capabilities # None
                  /\ instance.default_framebuffer_size # None
               \/ /\ c.bulb_count = 5
                  /\ c.resource.device_information # None
                  /\ c.resource.device_information[1].model = Some("HB-10521-HS")
               \/ /\ c.bulb_count = 12
                  /\ instance.capabilities = None
                  /\ instance.default_framebuffer_size = None
                  /\ instance.state = Some(<< >>)

EntitiesOfCall(k) == SelectSeq(entities, LAMBDA e : e.call = k)

C26_EntitiesPerClassification ==
    [][/\ \A n \in 1 .. Len(entities) : entities'[n] = entities[n]
       /\ made' # made /\ ~made'[Len(made')].raised =>
             LET result == SubSeq(entities', Len(entities) + 1, Len(entities'))
                 N == GetStringLightBulbCount(light)
                 classification == Classification(light)
             IN  /\ classification = "string" =>
                       /\ Len(result) = N
                       /\ \A n \in 1 .. N :
                             /\ result[n].kind = "bulb"
                             /\ result[n].bulb_index = n - 1
                             /\ result[n].shared_context = result[1].shared_context
                             /\ result[n].shared_context = shared_contexts'[light.id]
                             /\ result[n].shared_context # 0
                 /\ classification = "dual" =>
                       /\ Len(result) = 2
                       /\ result[1].kind = "color"
                       /\ result[2].kind = "white"
                 /\ classification = "single" =>
                       /\ Len(result) = 1
                       /\ result[1].kind = "generic"]_vars

\* C26 witness: a string light with three bulbs in its state got its three
\* bulb entities
C26_Witness ==
    /\ Len(entities) = 3
    /\ \A n \in 1 .. 3 : entities[n].kind = "bulb" /\ entities[n].bulb_index = n - 1
    /\ made = << [raised |-> FALSE] >>

C32_FailuresReturnFalse ==
    [][/\ \A e \in Entities :
             (command[e] \in {"on_update", "off_update"} /\ ReturnsFalse(task[e])) =>
                 /\ state_lock' = 0
                 /\ pc'[task[e]] = "idle"
                 /\ command'[e] = "idle"
       /\ \A e \in Entities :
             AsyncTurnOnPowered(e, FALSE) =>
                 /\ command'[e] = "on_update"
                 /\ pc'[task'[e]] = "waiting"
                 /\ device_on' = device_on
       /\ state_lock' # 0 => pc'[state_lock'] \in InFlight]_vars

\* C32 witness: a call failed at its second request (the device holds a new
\* array, no call has succeeded), and a later call has taken the lock and
\* has its first request in flight
C32_Witness ==
    /\ \A i \in Indices : last_ok[i] = None
    /\ device_framebuffer # InitialDeviceFramebuffer
    /\ state_lock # 0
    /\ pc[state_lock] = "req1"
    /\ calls = 2

\* C33: when update_framebuffer(i, patch) finds no cached array and none in
\* the resource, the array it builds has max(expected_bulb_count, i + 1)
\* slots, each slot but i the default off bulb (r, g, b 255, both
\* brightnesses 0, cct 3500) and slot i that bulb overlaid with the patch
C33_SynthesizedArray ==
    [][\A t \in Tasks :
          (/\ AcquireAndSend(t)
           /\ cached_framebuffer = None
           /\ resource_framebuffer = None) =>
              LET built == new_framebuffer'[t]
                  i == bulb_index[t]
                  patch == bulb_data[t]
                  off == [r |-> 255, g |-> 255, b |-> 255,
                          colorBrightness |-> 0, whiteBrightness |-> 0,
                          cct |-> 3500]
              IN  /\ Len(built) >= ExpectedBulbCount
                  /\ Len(built) >= i + 1
                  /\ Len(built) = ExpectedBulbCount \/ Len(built) = i + 1
                  /\ \A j \in 1 .. Len(built) : j # i + 1 => built[j] = off
                  /\ DOMAIN built[i + 1] = DOMAIN off
                  /\ \A f \in DOMAIN off :
                        built[i + 1][f] = IF f \in DOMAIN patch THEN patch[f] ELSE off[f]]_vars

\* C33 witness: a call for the bulb beyond the expected count, with a color,
\* found no array and has sent one of three slots
C33_Witness ==
    \E t \in Tasks :
        /\ pc[t] = "req1"
        /\ read_before[t] = None
        /\ bulb_index[t] = ExpectedBulbCount
        /\ bulb_data[t] = PatchRgb
        /\ Len(new_framebuffer[t]) = ExpectedBulbCount + 1
        /\ new_framebuffer[t][1] = DefaultBulb
        /\ new_framebuffer[t][ExpectedBulbCount + 1].cct = 3500
        /\ new_framebuffer[t][ExpectedBulbCount + 1].colorBrightness = 50

\* C34: every update_framebuffer call that waits for the lock comes to hold
\* it, every call comes to return, and the lock is held only by a call with
\* a request in flight (each exit path releases it), provided the tasks are
\* scheduled fairly and each device request returns or raises
C34_EveryCallReturns ==
    /\ \A t \in Tasks : (pc[t] = "waiting") ~> (pc[t] \in InFlight)
    /\ \A t \in Tasks : (pc[t] # "idle") ~> (pc[t] = "idle")
    /\ [](state_lock # 0 => pc[state_lock] \in InFlight)

\* C34 witness: a call waits for the lock while another call holds it with
\* its second request in flight
C34_Witness ==
    \E t, u \in Tasks :
        /\ pc[t] = "waiting"
        /\ pc[u] = "req2"
        /\ state_lock = u

\* C35: whatever brightness, RGB color and color temperature a turn-on is
\* given, when its update_framebuffer succeeds the slot of the bulb has
\* colorBrightness or whiteBrightness above zero and the entity reports
\* is_on
C35_TurnOnLeavesBulbLit ==
    [][\A e \in Entities :
          (EntityUpdateReturnsTrue(e) /\ command[e] = "on_update") =>
              /\ \/ cached_framebuffer'[1][e + 1].colorBrightness > 0
                 \/ cached_framebuffer'[1][e + 1].whiteBrightness > 0
              /\ is_on'[e]]_vars

C37_CacheNeverEmpty ==
    /\ [](cached_framebuffer = None \/ Len(cached_framebuffer[1]) > 0)
    /\ [][\A t \in Tasks :
             ModeRequestReturns(t) =>
                 /\ cached_framebuffer' # None
                 /\ Len(cached_framebuffer'[1]) > bulb_index[t]]_vars

\* a call for index 2 has returned True on a device whose resource holds an
\* empty list: the cache holds three bulbs
C37_Witness ==
    /\ resource_framebuffer = Some(<< >>)
    /\ last_ok[2] # None
    /\ cached_framebuffer # None
    /\ Len(cached_framebuffer[1]) = 3
    /\ \A t \in Tasks : pc[t] = "idle"

\* C38: in a refresh of a bulb entity (_update_bulb_state_from_resource), when
\* the array the context supplies has a slot for the entity's index, is_on
\* becomes true exactly when that slot's colorBrightness or whiteBrightness
\* is above zero, whatever the power state; when it has none, is_on becomes
\* true exactly when the power state is "on".
C38_IsOnFromSlot ==
    [][\A e \in Entities :
          EntityUpdateBulbState(e) =>
              LET array ==
                      IF cached_framebuffer' # None
                      THEN cached_framebuffer'[1]
                      ELSE IF resource_framebuffer # None
                           THEN resource_framebuffer[1]
                           ELSE << >>
              IN  IF Len(array) > e
                  THEN is_on'[e] = (\/ array[e + 1].colorBrightness > 0
                                    \/ array[e + 1].whiteBrightness > 0)
                  ELSE is_on'[e] = (resource_on = "on")]_vars

\* no command was given; the first bulb has refreshed its state while the
\* power state is "off" and shows on, from its slot in the resource's array
C38_Witness ==
    /\ calls = 0
    /\ resource_on = "off"
    /\ cached_framebuffer = None
    /\ resource_framebuffer # None
    /\ resource_framebuffer[1][1].colorBrightness > 0
    /\ is_on[0]
    /\ ~is_on[1]

\* C39: a bulb turn-off issues no device power command. The power of the
\* device changes only in the step in which the set_power_state request of a
\* turn-on is over; no step of a turn-off (its start, its two requests, its
\* end) changes it, also when the turn-off leaves every slot dark.
C39_TurnOffKeepsPower ==
    [][/\ device_on' # device_on =>
             \E e \in Entities :
                 command[e] = "on_power" /\ command'[e] = "on_update"
       /\ \A e \in Entities :
             (\/ AsyncTurnOff(e)
              \/ /\ command[e] = "off_update"
                 /\ \/ EntityAcquireAndSend(e)
                    \/ EntitySequenceRequestReturns(e)
                    \/ EntityUpdateReturnsTrue(e)
                    \/ EntityUpdateReturnsFalse(e)) =>
                 device_on' = device_on]_vars

\* both bulbs were turned off, successfully: every slot of the device is
\* dark and the device's power is still on
C39_Witness ==
    /\ calls = 2
    /\ \A e \in Entities : command[e] = "idle" /\ last_ok[e] = Some(PatchOff)
    /\ \A k \in 1 .. Len(device_framebuffer) :
          /\ device_framebuffer[k].colorBrightness = 0
          /\ device_framebuffer[k].whiteBrightness = 0
    /\ device_on

\* C40: a device that meets the dual-channel conditions (color mode, color,
\* color temperature and dimming support, 'flushmount' in a name) and a
\* string-light condition as well (the function class 'color-sequence-v2',
\* or a string-light name, image or model) gets from make_entities the color
\* and the white entity when no construction raises, the one generic entity
\* when one raises, and in neither case a bulb entity or a shared context.
C40_DualBeforeString ==
    [][(/\ made' # made
        /\ light.color_mode /\ light.supports_color
        /\ light.supports_color_temperature /\ light.supports_dimming
        /\ light.device_information # None
        /\ "name" \in DOMAIN light.device_information[1]
        /\ LET info == light.device_information[1]
           IN  /\ \/ info.name = Some("Porch FlushMount")
                  \/ info.default_name = Some("Flushmount Fixture")
               /\ \/ "color-sequence-v2" \in DOMAIN light.instances.items
                  \/ info.name = Some("Patio String Light")
                  \/ info.default_name = Some("String Lights")
                  \/ info.default_image = Some("STRING_icon.png")
                  \/ info.model = Some("HB-10521-HS")) =>
          LET result == SubSeq(entities', Len(entities) + 1, Len(entities'))
          IN  /\ \A n \in 1 .. Len(result) : result[n].kind # "bulb"
              /\ bulbs' = bulbs
              /\ shared_contexts' = shared_contexts
              /\ IF made'[Len(made')].raised
                 THEN Len(result) = 1 /\ result[1].kind = "generic"
                 ELSE /\ Len(result) = 2
                      /\ result[1].kind = "color"
                      /\ result[2].kind = "white"]_vars

\* C40 witness: a flushmount light with the three supports that also has the
\* function class 'color-sequence-v2' and the default name of a string
\* light got the color and the white entity
C40_Witness ==
    /\ light # NoLight
    /\ light.color_mode /\ light.supports_color
    /\ light.supports_color_temperature /\ light.supports_dimming
    /\ light.device_information # None
    /\ "name" \in DOMAIN light.device_information[1]
    /\ light.device_information[1].name = Some("Porch FlushMount")
    /\ light.device_information[1].default_name = Some("String Lights")
    /\ light.instances.kind = "dict"
    /\ "color-sequence-v2" \in DOMAIN light.instances.items
    /\ made = << [raised |-> FALSE] >>
    /\ Len(entities) = 2
    /\ entities[1].kind = "color"
    /\ entities[2].kind = "white"
    /\ bulbs = << >>

====
